---- MODULE Spec2Model ----
(***************************************************************************)
(* Model of the trimmer processing pipeline: the batch worker of the main  *)
(* window, Container.remux() with its commit protocol on the file system,   *)
(* and FFMpegRemuxer.process() reading the ffmpeg child's pipes.            *)
(*                                                                          *)
(* Two specifications share the module:                                     *)
(*   Spec      the batch worker, remux() and the file system;               *)
(*   SpecProc  one call of FFMpegRemuxer.process() at line granularity.     *)
(***************************************************************************)
EXTENDS Integers, Sequences, FiniteSets, TLC

VARIABLES
    files,      \* MainWindow.files: the batch, a sequence of containers
    fs,         \* the file system: path -> content, for the paths that exist
    thread,     \* state of MainWindow.processing_thread
    connected,  \* number of Worker.run slots connected to thread.started
    pending,    \* Worker.run slots still to be called by the started emission
    wpc,        \* position of the worker inside Worker.run / remux()
    idx,        \* 1-based index of the file the worker is at
    alive,      \* number of ffmpeg child processes that are alive
    child,      \* the ffmpeg child spawned last
    call,       \* the frame of the current (or last) remux() call
    callno,     \* number of remux() calls made so far
    log,        \* signals emitted and remux() calls made by the running Worker
    exits,      \* ffmpeg exit codes seen by the running Worker, per file
    lastBak,    \* per path: index of the backup created by the last commit, or -1
    raised,     \* index of the file whose remux() raised, or 0
    script,     \* SpecProc: the lines the child writes and the code it exits with
    pout,       \* SpecProc: lines buffered in the child's stdout pipe
    perr,       \* SpecProc: lines buffered in the child's stderr pipe
    chExit,     \* SpecProc: the child's exit code once it has exited, else NoCode
    ppc,        \* SpecProc: position inside FFMpegRemuxer.process()
    frame,      \* SpecProc: local variable frame
    fps,        \* SpecProc: local variable fps
    updated,    \* SpecProc: local variable updated
    stderrAcc,  \* SpecProc: local variable stderr, as the list of lines read
    calls,      \* SpecProc: the on_progress invocations made so far
    presult,    \* SpecProc: the value process() returned
    chPos,      \* SpecProc: number of lines the child has written
    hooks,      \* SpecProc: the exit handlers registered with the interpreter
    tracks,     \* SpecArgs: Container.tracks
    metadata,   \* SpecArgs: Container.metadata, the (key, value) pairs in dict order
    enc,        \* SpecArgs: Container.codec, preset, tune and profile
    argv,       \* SpecArgs: FFMpegRemuxer.args as handed to Popen, <<>> before
    edits,      \* SpecArgs: number of edits the user has made
    codecs,     \* SpecCodec: MainWindow.supported_codecs
    gpu_name,   \* SpecCodec: MainWindow.gpu_name, as the sequence of its characters
    preferred,  \* SpecCodec: MainWindow.preferred_codec, the result of prefer_hevc_codec
    cont,       \* SpecDur: the metadata and the tracks of the Container being parsed
    est,        \* SpecDur: the locals and the results of Container.__estimate_duration
    media,      \* SpecProbe: the file being opened and what ffprobe answers about it
    probe,      \* SpecProbe: the position, the locals and the result of Container.parse()
    encs,       \* SpecEnc: Container.codec, preset, tune and profile of each opened file
    ui,         \* SpecEnc: MainWindow.supported_codecs and preferred_codec
    encEdits,   \* SpecEnc: number of edits the user has made
    encout,     \* SpecStart: what 'ffmpeg -hide_banner -encoders' exits with and prints, and the GPU name
    boot,       \* SpecStart: the position in MainWindow.__init__, supported_codecs and preferred_codec
    stat,       \* SpecEta: the FileStatus of the file, the clock and ffmpeg's frame counter
    calc,       \* SpecEta: the fields of the ETACalculator of the file
    feeds       \* SpecEta: the (time, percent) of each feed() call since the last reset

mainVars == <<files, fs, thread, connected, pending, wpc, idx, alive,
              child, call, callno, log, exits, lastBak, raised>>
procVars == <<script, pout, perr, chExit, ppc, frame, fps, updated, stderrAcc,
              calls, presult, chPos, hooks>>
argVars == <<tracks, metadata, enc, argv, edits>>
codecVars == <<codecs, gpu_name, preferred>>
durVars == <<cont, est>>
probeVars == <<media, probe>>
encVars == <<encs, ui, encEdits>>
startVars == <<encout, boot>>
etaVars == <<stat, calc, feeds>>
vars == <<files, fs, thread, connected, pending, wpc, idx, alive,
          child, call, callno, log, exits, lastBak, raised,
          script, pout, perr, chExit, ppc, frame, fps, updated, stderrAcc,
          calls, presult, chPos, hooks,
          tracks, metadata, enc, argv, edits,
          codecs, gpu_name, preferred,
          cont, est,
          media, probe,
          encs, ui, encEdits,
          encout, boot,
          stat, calc, feeds>>

\* the variables each specification leaves alone
offMainVars == <<procVars, argVars, codecVars, durVars, probeVars, encVars, startVars, etaVars>>
offProcVars == <<mainVars, argVars, codecVars, durVars, probeVars, encVars, startVars, etaVars>>
offArgVars == <<mainVars, procVars, codecVars, durVars, probeVars, encVars, startVars, etaVars>>
offCodecVars == <<mainVars, procVars, argVars, durVars, probeVars, encVars, startVars, etaVars>>
offDurVars == <<mainVars, procVars, argVars, codecVars, probeVars, encVars, startVars, etaVars>>
offProbeVars == <<mainVars, procVars, argVars, codecVars, durVars, encVars, startVars, etaVars>>
offEncVars == <<mainVars, procVars, argVars, codecVars, durVars, probeVars, startVars, etaVars>>
offStartVars == <<mainVars, procVars, argVars, codecVars, durVars, probeVars, encVars, etaVars>>
offEtaVars == <<mainVars, procVars, argVars, codecVars, durVars, probeVars, encVars, startVars>>

(***************************************************************************)
(* Bounds of the model.                                                     *)
(***************************************************************************)
MaxFiles == 2       \* longest batch
MaxTriggers == 2    \* Process triggers that reach the thread before it has started
MaxCalls == 3       \* remux() calls made in one behaviour
MaxPreBak == 1      \* pre-existing backups F.bak0 .. F.bak(MaxPreBak-1) may exist
MaxLines == 3       \* SpecProc: lines the child writes before it exits
PipeCap == 2        \* SpecProc: lines a pipe buffers before a write blocks

Range(s) == {s[i] : i \in 1..Len(s)}

(***************************************************************************)
(* Paths.  A file name is kept as the list of its pieces between dots so    *)
(* that split('.') and os.path.splitext can be computed; the path itself is *)
(* the string obtained by joining the pieces.                               *)
(***************************************************************************)
RECURSIVE Join(_)
Join(parts) ==
    IF Len(parts) = 0 THEN ""
    ELSE IF Len(parts) = 1 THEN parts[1]
    ELSE parts[1] \o "." \o Join(Tail(parts))

SUPPORTED_CONTAINERS == <<"mkv", "webm", "mp4", "mov", "m2ts">>

\* Container.__get_container_type: file.split('.')[-1] looked up in the catalog
get_container_type(parts) ==
    LET ext == parts[Len(parts)]
    IN  IF ext \in Range(SUPPORTED_CONTAINERS) THEN ext ELSE "unsupported"

\* os.path.splitext(file)[0]: the last dot splits unless only leading dots precede it
splitext_root(parts) ==
    IF Len(parts) >= 2 /\ (\E k \in 1..(Len(parts) - 1) : parts[k] # "")
    THEN Join(SubSeq(parts, 1, Len(parts) - 1))
    ELSE Join(parts)

\* file names the user may open
FileParts == { <<"a", "mkv">>, <<"a", "mp4">>, <<"", "mkv">> }

Exists(fsys, p) == p \in DOMAIN fsys

NoFile == -1        \* content of a path that does not exist
Partial == 0        \* content of a partially written file
ContentOf(fsys, p) == IF Exists(fsys, p) THEN fsys[p] ELSE NoFile

BakName(file, i) == file \o ".bak" \o ToString(i)

\* utils.unique_bak_name: the first F.bak<i>, i = 0, 1, ..., that does not exist
unique_bak_name_overwrite(fsys, file) == BakName(file, 0)
unique_bak_name(fsys, file) ==
    LET n == CHOOSE i \in 0..Cardinality(DOMAIN fsys) :
                 /\ ~Exists(fsys, BakName(file, i))
                 /\ \A j \in 0..(i - 1) : Exists(fsys, BakName(file, j))
    IN  BakName(file, n)

\* the backup numbers that can be in use: the earlier ones and one per call
BakNumbers == 0..(MaxPreBak + MaxCalls)

\* the N of a path of the form <file>.bakN, else -1
BakIndexOf(file, p) ==
    IF \E i \in BakNumbers : p = BakName(file, i)
    THEN CHOOSE i \in BakNumbers : p = BakName(file, i)
    ELSE -1

\* the backups of a path that exist
BaksOf(fsys, file) ==
    {BakName(file, i) : i \in BakNumbers} \cap DOMAIN fsys


(***************************************************************************)
(* File-system primitives used by the commit protocol.                      *)
(***************************************************************************)
\* shutil.move succeeded: dst holds what src held, src is gone
MoveOkKeepsSrc(fsys, src, dst) ==
    [p \in DOMAIN fsys \cup {dst} |-> IF p = dst THEN fsys[src] ELSE fsys[p]]
MoveOk(fsys, src, dst) ==
    [p \in (DOMAIN fsys \ {src}) \cup {dst} |-> IF p = dst THEN fsys[src] ELSE fsys[p]]

\* shutil.move failed after its copy fallback had written c to dst; src stays
MoveCopied(fsys, src, dst, c) ==
    [p \in DOMAIN fsys \cup {dst} |-> IF p = dst THEN c ELSE fsys[p]]

\* the outcomes of shutil.move(src, dst): the new file system and whether it returned
MoveOutcomes(fsys, src, dst) ==
    IF ~Exists(fsys, src)
    THEN { [fs |-> fsys, ok |-> FALSE] }
    ELSE { [fs |-> MoveOk(fsys, src, dst), ok |-> TRUE],
           [fs |-> fsys, ok |-> FALSE],
           [fs |-> MoveCopied(fsys, src, dst, Partial), ok |-> FALSE] }

\* the outcomes of os.remove(p): it raises when p is missing or cannot be deleted
RemoveOutcomes(fsys, p) ==
    IF ~Exists(fsys, p)
    THEN { [fs |-> fsys, ok |-> FALSE] }
    ELSE { [fs |-> [q \in DOMAIN fsys \ {p} |-> fsys[q]], ok |-> TRUE],
           [fs |-> fsys, ok |-> FALSE] }

(***************************************************************************)
(* Container.remux(): paths and the ffmpeg command line.                    *)
(***************************************************************************)
\* outfile = self.file + '.trimmed.' + self.container.ext
OutFileInPlace(c) == c.file
OutFile(c) == c.file \o ".trimmed." \o c.ext

\* destfile = f'{os.path.splitext(self.file)[0]}.{self.container.ext}'
DestFile(c) == splitext_root(c.parts) \o "." \o c.ext

\* FFMpegRemuxer.__init__, audio_as_is, subtitles_as_is and the tail process()
\* appends.  The per-track arguments (-c:v ..., -map ...) and the -metadata
\* arguments come between '-c:s copy' and the output path and do not move the
\* input or the output argument; they are left out here.
RemuxArgsOntoInput(c, outfile) ==
    <<"ffmpeg", "-i", c.file, "-y">> \o <<"-c:a", "copy">> \o <<"-c:s", "copy">>
        \o <<c.file, "-progress", "pipe:1", "-v", "error">>
RemuxArgs(c, outfile) ==
    <<"ffmpeg", "-i", c.file, "-y">> \o <<"-c:a", "copy">> \o <<"-c:s", "copy">>
        \o <<outfile, "-progress", "pipe:1", "-v", "error">>

\* the input and the output ffmpeg takes from its command line
ArgInput(args) == args[3]
ArgOutput(args) == args[Len(args) - 4]

(***************************************************************************)
(* The value FFMpegRemuxer.process() returns.                               *)
(***************************************************************************)
NoCode == 999       \* returncode of a child that has not exited (None)

RECURSIVE DropBlank(_)
DropBlank(ls) == IF Len(ls) > 0 /\ ls[1] = "" THEN DropBlank(Tail(ls)) ELSE ls

Reverse(ls) == [i \in 1..Len(ls) |-> ls[Len(ls) + 1 - i]]

RECURSIVE JoinNL(_)
JoinNL(ls) ==
    IF Len(ls) = 0 THEN ""
    ELSE IF Len(ls) = 1 THEN ls[1]
    ELSE ls[1] \o "\n" \o JoinNL(Tail(ls))

\* stderr.strip() of the text made of the lines ls, each ended by a newline
StripText(ls) == JoinNL(Reverse(DropBlank(Reverse(DropBlank(ls)))))

Ok == [kind |-> "Ok", msg |-> ""]
Err(m) == [kind |-> "Err", msg |-> m]
NoResult == [kind |-> "none", msg |-> ""]

\* if process.returncode == 0: return Ok(None); return Err(f'... Exit code: ...')
ProcessResultAlwaysOk(code, errLines) == Ok
ProcessResult(code, errLines) ==
    IF code = 0
    THEN Ok
    ELSE Err("Failed to process file. Exit code: " \o ToString(code)
             \o " (" \o ToString(code) \o "): " \o StripText(errLines))

\* return Err(f'Remuxer failed: {res.unwrap_err()}')
RemuxErr(res) == Err("Remuxer failed: " \o res.msg)


(***************************************************************************)
(* Initial states of Spec: a batch of opened files and the directory they   *)
(* live in.                                                                 *)
(***************************************************************************)
\* a Container with its output container type
ContainerOf(ps, e) == [parts |-> ps, file |-> Join(ps), ext |-> e]

\* MainWindow.open_file appends a file that parses unless its path is already open
Opened ==
    { l \in UNION { [1..n -> FileParts] : n \in 1..MaxFiles } :
        /\ \A i \in 1..Len(l) : get_container_type(l[i]) # "unsupported"
        /\ \A i, j \in 1..Len(l) : i # j => Join(l[i]) # Join(l[j]) }

\* parse() sets the container type from the extension; afterwards the user
\* may change the type of one row, or of all files at once in the batch
\* encoding options dialog
Batches ==
    UNION { { [k \in 1..Len(l) |-> ContainerOf(l[k], get_container_type(l[k]))] }
              \cup { [k \in 1..Len(l) |->
                        ContainerOf(l[k], IF k = j THEN e ELSE get_container_type(l[k]))] :
                      j \in 1..Len(l), e \in Range(SUPPORTED_CONTAINERS) }
              \cup { [k \in 1..Len(l) |-> ContainerOf(l[k], e)] :
                      e \in Range(SUPPORTED_CONTAINERS) }
            : l \in Opened }

ProducedBy(n) == 100 + n    \* what the n-th ffmpeg run writes
PreBakContent(i) == 50 + i  \* a backup left by an earlier session
PreTempContent == 60        \* a temporary file left by an earlier session

\* the directory before the batch: the opened files, some earlier backups of
\* the first one and possibly a left-over temporary file of the first one
Directories(b) ==
    { [p \in {b[k].file : k \in 1..Len(b)}
           \cup {BakName(b[1].file, i) : i \in pre}
           \cup (IF tmp THEN {OutFile(b[1])} ELSE {}) |->
         IF \E k \in 1..Len(b) : p = b[k].file
         THEN CHOOSE k \in 1..Len(b) : p = b[k].file
         ELSE IF p = OutFile(b[1]) THEN PreTempContent
         ELSE PreBakContent(BakIndexOf(b[1].file, p))] :
        pre \in SUBSET (0..(MaxPreBak - 1)), tmp \in BOOLEAN }

NoChild == [args |-> <<>>, input |-> "", target |-> "", opened |-> FALSE,
            code |-> NoCode, errLines |-> <<>>]
NoCall == [i |-> 0, file |-> "", out |-> "", dest |-> "", orig |-> NoFile, baks |-> {},
           bak |-> "", produced |-> NoFile, rmFailed |-> FALSE, result |-> NoResult]

ProcIdle ==
    /\ script = [ops |-> <<>>, code |-> 0] /\ pout = <<>> /\ perr = <<>> /\ chExit = NoCode
    /\ ppc = "unused" /\ frame = 0 /\ fps = 0 /\ updated = FALSE
    /\ stderrAcc = <<>> /\ calls = <<>> /\ presult = NoResult /\ chPos = 0
    /\ hooks = {}

MainIdle ==
    /\ files = <<>> /\ fs = <<>> /\ thread = "unused" /\ connected = 0
    /\ pending = 0 /\ wpc = "unused" /\ idx = 0 /\ alive = 0
    /\ child = NoChild /\ call = NoCall /\ callno = 0 /\ log = <<>>
    /\ exits = <<>> /\ lastBak = <<>> /\ raised = 0

ArgsIdle ==
    /\ tracks = <<>> /\ metadata = <<>> /\ enc = <<>> /\ argv = <<>> /\ edits = 0

CodecIdle ==
    /\ codecs = {} /\ gpu_name = <<>> /\ preferred = NoResult

DurIdle ==
    /\ cont = <<>> /\ est = <<>>

ProbeIdle ==
    /\ media = <<>> /\ probe = <<>>

EncIdle ==
    /\ encs = <<>> /\ ui = <<>> /\ encEdits = 0

StartIdle ==
    /\ encout = <<>> /\ boot = <<>>

EtaIdle ==
    /\ stat = <<>> /\ calc = <<>> /\ feeds = <<>>

\* the variables of the specifications other than s are at rest
IdleBut(s) ==
    /\ s # "Spec" => MainIdle
    /\ s # "SpecProc" => ProcIdle
    /\ s # "SpecArgs" => ArgsIdle
    /\ s # "SpecCodec" => CodecIdle
    /\ s # "SpecDur" => DurIdle
    /\ s # "SpecProbe" => ProbeIdle
    /\ s # "SpecEnc" => EncIdle
    /\ s # "SpecStart" => StartIdle
    /\ s # "SpecEta" => EtaIdle

Init ==
    /\ files \in Batches
    /\ fs \in Directories(files)
    /\ thread = "idle"
    /\ connected = 0
    /\ pending = 0
    /\ wpc = "none"
    /\ idx = 0
    /\ alive = 0
    /\ child = NoChild
    /\ call = NoCall
    /\ callno = 0
    /\ log = <<>>
    /\ exits = <<>>
    /\ lastBak = [f \in {files[k].file : k \in 1..Len(files)} |-> -1]
    /\ raised = 0
    /\ IdleBut("Spec")

(***************************************************************************)
(* MainWindow.process(): the Process action of the tool bar.                *)
(***************************************************************************)
\* A new Worker is moved to processing_thread, its run is connected to the
\* thread's started signal and the thread is started.  start() does nothing on
\* a thread that runs, whose started signal has been emitted already; a thread
\* that has finished has been deleted (finished -> deleteLater) and
\* moveToThread raises.  In both cases the trigger starts no Worker.
Process ==
    /\ Len(files) > 0
    /\ \/ /\ thread = "idle"
          /\ thread' = "starting"
          /\ connected' = connected + 1
       \/ /\ thread = "starting"
          /\ connected < MaxTriggers
          /\ connected' = connected + 1
          /\ UNCHANGED thread
       \/ /\ thread \in {"running", "finished", "crashed"}
          /\ UNCHANGED <<thread, connected>>
    /\ UNCHANGED <<files, fs, pending, wpc, idx, alive, child, call, callno,
                   log, exits, lastBak, raised>>
    /\ UNCHANGED offMainVars

\* the thread emits started: the connected run slots are called one after
\* the other in the thread
ThreadStarted ==
    /\ thread = "starting"
    /\ thread' = "running"
    /\ pending' = connected - 1
    /\ wpc' = "loop"
    /\ idx' = 1
    /\ log' = <<>>
    /\ exits' = <<>>
    /\ UNCHANGED <<files, fs, connected, alive, child, call, callno,
                   lastBak, raised>>
    /\ UNCHANGED offMainVars

(***************************************************************************)
(* Worker.run and Container.remux().                                        *)
(***************************************************************************)
Event(e, i) == [ev |-> e, i |-> i]

\* loop head: file_update 'working', then remux() up to the Popen of ffmpeg
WorkerRemux ==
    /\ wpc = "loop"
    /\ idx <= Len(files)
    /\ callno < MaxCalls
    /\ LET c == files[idx]
           outfile == OutFile(c)
           args == RemuxArgs(c, outfile)
       IN  /\ log' = log \o <<Event("working", idx), Event("remux", idx)>>
           /\ callno' = callno + 1
           /\ call' = [i |-> idx, file |-> c.file, out |-> outfile, dest |-> DestFile(c),
                       orig |-> ContentOf(fs, c.file), baks |-> BaksOf(fs, c.file),
                       bak |-> "", produced |-> NoFile, rmFailed |-> FALSE,
                       result |-> NoResult]
           /\ child' = [args |-> args, input |-> ArgInput(args),
                        target |-> ArgOutput(args), opened |-> FALSE,
                        code |-> NoCode, errLines |-> <<>>]
           /\ alive' = alive + 1
    /\ wpc' = "streaming"
    /\ UNCHANGED <<files, fs, thread, connected, pending, idx, exits,
                   lastBak, raised>>
    /\ UNCHANGED offMainVars

\* ffmpeg (-y) has read its input and creates or truncates its output file
ChildOpen ==
    /\ alive > 0
    /\ child.code = NoCode
    /\ ~child.opened
    /\ Exists(fs, child.input)
    /\ fs' = [p \in DOMAIN fs \cup {child.target} |->
                IF p = child.target THEN Partial ELSE fs[p]]
    /\ child' = [child EXCEPT !.opened = TRUE]
    /\ UNCHANGED <<files, thread, connected, pending, wpc, idx, alive,
                   call, callno, log, exits, lastBak, raised>>
    /\ UNCHANGED offMainVars

\* ffmpeg exits: with 0 once the output is complete, with another code at any time
ChildExit ==
    /\ alive > 0
    /\ child.code = NoCode
    /\ \E code \in {0, 1}, errs \in {<<>>, <<"Conversion failed!">>} :
          /\ code = 0 => child.opened /\ errs = <<>>
          /\ child' = [child EXCEPT !.code = code, !.errLines = errs]
          /\ fs' = IF code = 0
                   THEN [fs EXCEPT ![child.target] = ProducedBy(callno)]
                   ELSE fs
    /\ alive' = alive - 1
    /\ UNCHANGED <<files, thread, connected, pending, wpc, idx,
                   call, callno, log, exits, lastBak, raised>>
    /\ UNCHANGED offMainVars

\* process() returns once its read loops have seen the child exit (poll() is
\* not None) and process.wait() has returned
ProcessReturnedNoWait == TRUE
ProcessReturned == child.code # NoCode

\* ffmpeg failed: remove the temporary file, swallow a failure to do so,
\* return Err; the worker emits 'error' and goes on to the next file
NextIndexAbort(i) == Len(files) + 1
NextIndex(i) == i + 1

\* os.remove(outfile) on the failure path
CleanupPathInput(cl) == cl.file
CleanupPath(cl) == cl.out

RemuxFailed ==
    /\ wpc = "streaming"
    /\ ProcessReturned
    /\ LET res == ProcessResult(child.code, child.errLines)
       IN  /\ res.kind = "Err"
           /\ \E o \in RemoveOutcomes(fs, CleanupPath(call)) :
                 /\ fs' = o.fs
                 /\ call' = [call EXCEPT !.result = RemuxErr(res),
                                         !.rmFailed = ~o.ok /\ Exists(fs, CleanupPath(call))]
    /\ log' = Append(log, Event("error", idx))
    /\ exits' = Append(exits, child.code)
    /\ idx' = NextIndex(idx)
    /\ wpc' = "loop"
    /\ UNCHANGED <<files, thread, connected, pending, alive, child,
                   callno, lastBak, raised>>
    /\ UNCHANGED offMainVars

\* ffmpeg succeeded: move the original to its backup name.  Neither remux()
\* nor Worker.run handles an exception of shutil.move: it ends run().
BackupMove ==
    /\ wpc = "streaming"
    /\ ProcessReturned
    /\ ProcessResult(child.code, child.errLines).kind = "Ok"
    /\ LET bak == unique_bak_name(fs, call.file)
       IN  \E o \in MoveOutcomes(fs, call.file, bak) :
             /\ fs' = o.fs
             /\ call' = [call EXCEPT !.bak = bak, !.produced = ContentOf(fs, call.out)]
             /\ IF o.ok
                THEN /\ wpc' = "backed_up"
                     /\ UNCHANGED <<raised, thread>>
                ELSE /\ wpc' = "crashed"
                     /\ raised' = idx
                     /\ thread' = "crashed"
    /\ exits' = Append(exits, child.code)
    /\ UNCHANGED <<files, connected, pending, idx, alive, child,
                   callno, log, lastBak>>
    /\ UNCHANGED offMainVars

\* move the temporary file to the canonical name, return Ok; the worker
\* emits 'done' and goes on to the next file
ReplaceMove ==
    /\ wpc = "backed_up"
    /\ \E o \in MoveOutcomes(fs, call.out, call.dest) :
          /\ fs' = o.fs
          /\ IF o.ok
             THEN /\ call' = [call EXCEPT !.result = Ok]
                  /\ log' = Append(log, Event("done", idx))
                  /\ idx' = NextIndex(idx)
                  /\ wpc' = "loop"
                  /\ lastBak' = [lastBak EXCEPT ![call.file] = BakIndexOf(call.file, call.bak)]
                  /\ UNCHANGED <<raised, thread>>
             ELSE /\ wpc' = "crashed"
                  /\ raised' = idx
                  /\ thread' = "crashed"
                  /\ UNCHANGED <<call, log, idx, lastBak>>
    /\ UNCHANGED <<files, connected, pending, alive, child, callno, exits>>
    /\ UNCHANGED offMainVars

\* after the last file: emit finished; the next connected run slot, if any,
\* is called, else the thread quits
WorkerFinished ==
    /\ wpc = "loop"
    /\ idx > Len(files)
    /\ log' = Append(log, Event("finished", 0))
    /\ wpc' = "returned"
    /\ UNCHANGED <<files, fs, thread, connected, pending, idx, alive,
                   child, call, callno, exits, lastBak, raised>>
    /\ UNCHANGED offMainVars

NextWorker ==
    /\ wpc = "returned"
    /\ thread = "running"
    /\ IF pending > 0
       THEN /\ pending' = pending - 1
            /\ wpc' = "loop"
            /\ idx' = 1
            /\ log' = <<>>
            /\ exits' = <<>>
            /\ UNCHANGED thread
       ELSE /\ thread' = "finished"
            /\ UNCHANGED <<pending, wpc, idx, log, exits>>
    /\ UNCHANGED <<files, fs, connected, alive, child, call, callno,
                   lastBak, raised>>
    /\ UNCHANGED offMainVars

Next ==
    \/ Process
    \/ ThreadStarted
    \/ WorkerRemux
    \/ ChildOpen
    \/ ChildExit
    \/ RemuxFailed
    \/ BackupMove
    \/ ReplaceMove
    \/ WorkerFinished
    \/ NextWorker

Spec == Init /\ [][Next]_vars


(***************************************************************************)
(* SpecProc: one call of FFMpegRemuxer.process().  The child writes the     *)
(* lines of its script to its stdout and stderr pipes, blocking on a full   *)
(* pipe, and then exits; process() reads stdout to its end, then stderr.    *)
(***************************************************************************)
StdoutLines == {"frame=100", "frame=101", "fps=24.0", "fps=24", "progress=continue"}
StderrLines == {"Conversion failed!", ""}

ChildOps ==
    { [pipe |-> "out", line |-> l] : l \in StdoutLines }
        \cup { [pipe |-> "err", line |-> l] : l \in StderrLines }

ExitCodes == {0, 1, -9}

NoMatch == -1

\* FFMPEG_PROCESSED_FRAMES_RE = r'frame=(?P<frame>\d+)' matched at the line start
ParseFrame(line) ==
    IF \E n \in 100..101 : line = "frame=" \o ToString(n)
    THEN CHOOSE n \in 100..101 : line = "frame=" \o ToString(n)
    ELSE NoMatch

\* FFMPEG_FPS_RE = r'fps=(?P<fps>\d+\.\d+)': a value without a fraction does
\* not match; the float n.0 is kept as n
ParseFps(line) ==
    IF \E n \in 24..25 : line = "fps=" \o ToString(n) \o ".0"
    THEN CHOOSE n \in 24..25 : line = "fps=" \o ToString(n) \o ".0"
    ELSE NoMatch

\* the state right after subprocess.Popen and frame = 0, fps = 0, updated = True;
\* process() registers no exit handler, neither here nor later
InitProc ==
    /\ IdleBut("SpecProc")
    /\ script \in { [ops |-> o, code |-> c] :
                      o \in UNION { [1..n -> ChildOps] : n \in 0..MaxLines },
                      c \in ExitCodes }
    /\ pout = <<>>
    /\ perr = <<>>
    /\ chExit = NoCode
    /\ chPos = 0
    /\ ppc = "stdout"
    /\ frame = 0
    /\ fps = 0
    /\ updated = TRUE
    /\ stderrAcc = <<>>
    /\ calls = <<>>
    /\ presult = NoResult
    /\ hooks = {}

\* the child writes its next line; the write blocks while the pipe is full
ProcChildWrite ==
    /\ chExit = NoCode
    /\ chPos < Len(script.ops)
    /\ LET op == script.ops[chPos + 1]
       IN  \/ /\ op.pipe = "out"
              /\ Len(pout) < PipeCap
              /\ pout' = Append(pout, op.line)
              /\ UNCHANGED perr
           \/ /\ op.pipe = "err"
              /\ Len(perr) < PipeCap
              /\ perr' = Append(perr, op.line)
              /\ UNCHANGED pout
    /\ chPos' = chPos + 1
    /\ UNCHANGED <<script, chExit, ppc, frame, fps, updated, stderrAcc, calls, presult,
                   hooks>>
    /\ UNCHANGED offProcVars

\* the child has written everything and exits, closing both pipes
ProcChildExit ==
    /\ chExit = NoCode
    /\ chPos = Len(script.ops)
    /\ chExit' = script.code
    /\ UNCHANGED <<script, pout, perr, chPos, ppc, frame, fps, updated, stderrAcc,
                   calls, presult, hooks>>
    /\ UNCHANGED offProcVars

\* updated after a line: set by either regular expression that matches
UpdatedAfter(line, fr, fp, upd) ==
    \/ upd
    \/ ParseFrame(line) # NoMatch
    \/ ParseFps(line) # NoMatch

\* one iteration of the stdout loop: readline() returns a line, or '' at the
\* end of the stream of a child that has exited
ReadStdout ==
    /\ ppc = "stdout"
    /\ \/ /\ pout # <<>>
          /\ LET line == Head(pout)
                 fr == IF ParseFrame(line) # NoMatch THEN ParseFrame(line) ELSE frame
                 fp == IF ParseFps(line) # NoMatch THEN ParseFps(line) ELSE fps
             IN  /\ pout' = Tail(pout)
                 /\ frame' = fr
                 /\ fps' = fp
                 /\ IF UpdatedAfter(line, frame, fps, updated)
                    THEN calls' = Append(calls, <<fr, fp>>)
                    ELSE calls' = calls
                 /\ updated' = FALSE
          /\ UNCHANGED ppc
       \/ /\ pout = <<>>
          /\ chExit # NoCode
          /\ ppc' = "stderr"
          /\ UNCHANGED <<pout, frame, fps, updated, calls>>
    /\ UNCHANGED <<script, perr, chExit, chPos, stderrAcc, presult, hooks>>
    /\ UNCHANGED offProcVars

\* one iteration of the stderr loop; at the end of the stream process.wait()
\* returns at once and the result is built from returncode and stderr
ReadStderr ==
    /\ ppc = "stderr"
    /\ \/ /\ perr # <<>>
          /\ perr' = Tail(perr)
          /\ stderrAcc' = Append(stderrAcc, Head(perr))
          /\ UNCHANGED <<ppc, presult>>
       \/ /\ perr = <<>>
          /\ chExit # NoCode
          /\ presult' = ProcessResult(chExit, stderrAcc)
          /\ ppc' = "returned"
          /\ UNCHANGED <<perr, stderrAcc>>
    /\ UNCHANGED <<script, pout, chExit, chPos, frame, fps, updated, calls, hooks>>
    /\ UNCHANGED offProcVars

NextProc ==
    \/ ProcChildWrite
    \/ ProcChildExit
    \/ ReadStdout
    \/ ReadStderr

SpecProc == InitProc /\ [][NextProc]_vars

\* the child and process() each go on while they can: a write that has room
\* in its pipe happens, a readline() that has a line or the end of the
\* stream returns
SpecProcLive ==
    /\ SpecProc
    /\ WF_vars(ProcChildWrite)
    /\ WF_vars(ProcChildExit)
    /\ WF_vars(ReadStdout)
    /\ WF_vars(ReadStderr)


(***************************************************************************)
(* SpecArgs: the ffmpeg command line Container.remux() builds from the      *)
(* tracks, the encoder selections and the metadata of a parsed Container,   *)
(* after the edits the user has made in the main window.                    *)
(***************************************************************************)
MaxTracks == 3      \* SpecArgs: streams of the opened file
MaxEdits == 2       \* SpecArgs: edits the user makes before processing

\* needle in hay, for two str given as the sequences of their characters
Contains(hay, needle) ==
    \E i \in 0..(Len(hay) - Len(needle)) : SubSeq(hay, i + 1, i + Len(needle)) = needle

LIBX265_CODEC ==
    [name |-> "libx265",
     presets |-> <<"ultrafast", "superfast", "veryfast", "faster", "fast", "medium",
                   "slow", "slower", "veryslow", "placebo">>,
     preferred_preset |-> "slow",
     tunes |-> <<"psnr", "ssim", "grain", "fastdecode", "zerolatency", "animation">>,
     preferred_tune |-> "grain",
     profiles |-> <<"main", "main444-8", "main10", "main422-10", "main444-10",
                    "main12", "main422-12", "main444-12">>,
     preferred_profile |-> "main"]

HEVC_NVENC_CODEC ==
    [name |-> "hevc_nvenc",
     presets |-> <<"default", "slow", "medium", "fast", "hp", "hq", "bd", "ll", "llhq",
                   "llhp", "lossless", "losslesshp", "p1", "p2", "p3", "p4", "p5",
                   "p6", "p7">>,
     preferred_preset |-> "p6",
     tunes |-> <<"hq", "ll", "ull", "lossless">>,
     preferred_tune |-> "hq",
     profiles |-> <<"main", "main10", "rext">>,
     preferred_profile |-> "main"]

HEVC_VIDEOTOOLBOX_CODEC ==
    [name |-> "hevc_videotoolbox",
     presets |-> <<"default", "slow", "medium", "fast", "faster", "fastest">>,
     preferred_preset |-> "medium",
     tunes |-> <<"default">>,
     preferred_tune |-> "default",
     profiles |-> <<"main", "main10">>,
     preferred_profile |-> "main"]

KNOWN_CODECS == <<LIBX265_CODEC, HEVC_NVENC_CODEC, HEVC_VIDEOTOOLBOX_CODEC>>

\* the codec_name values ffprobe reports, as character sequences
CodecH264 == <<"h", "2", "6", "4">>
CodecHevc == <<"h", "e", "v", "c">>
CodecAac == <<"a", "a", "c">>
CodecSubrip == <<"s", "u", "b", "r", "i", "p">>

\* VideoTrack.is_h265: 'hevc' in self.codec or 'h265' in self.codec
is_h265(track) ==
    \/ Contains(track.codec, <<"h", "e", "v", "c">>)
    \/ Contains(track.codec, <<"h", "2", "6", "5">>)

\* Track.__init__ as called for a stream: keep starts True
Track(type, index, codec, language, title) ==
    [type |-> type, index |-> index, codec |-> codec, language |-> language,
     title |-> title, keep |-> TRUE]

\* the streams of a file in container order: a stream's index is its position
StreamKinds ==
    { [type |-> "video", codec |-> CodecH264], [type |-> "video", codec |-> CodecHevc],
      [type |-> "audio", codec |-> CodecAac], [type |-> "subtitle", codec |-> CodecSubrip] }

\* the tracks one stream-type probe yields for streams without tags: the
\* streams of the type in container order, title "default", language "und"
RECURSIVE SelectStreams(_, _, _)
SelectStreams(streams, type, i) ==
    IF i > Len(streams) THEN <<>>
    ELSE (IF streams[i].type = type
          THEN <<Track(type, i - 1, streams[i].codec, "und", "default")>>
          ELSE <<>>) \o SelectStreams(streams, type, i + 1)

\* get_video_tracks when every probe succeeds: video, audio, subtitle
ProbedTracks(streams) ==
    SelectStreams(streams, "video", 1) \o SelectStreams(streams, "audio", 1)
        \o SelectStreams(streams, "subtitle", 1)

\* self.__metadata[k] = v on the dict kept as its (key, value) pairs
SetKey(meta, k, v) ==
    IF \E i \in 1..Len(meta) : meta[i][1] = k
    THEN [i \in 1..Len(meta) |-> IF meta[i][1] = k THEN <<k, v>> ELSE meta[i]]
    ELSE Append(meta, <<k, v>>)

\* Container.__get_signature()
Signature == "0.1 (Python 3.12), 05-11-2026 12:00:00"

\* the format tags a file may carry
FormatTags ==
    { <<>>, << <<"TRIMMER_VERSION", "older">>, <<"title", "Movie">> >> }

\* Container.__init__ and the codec setter: the codec with its preferred values
WithCodec(codec) ==
    [codec |-> codec, preset |-> codec.preferred_preset,
     tune |-> codec.preferred_tune, profile |-> codec.preferred_profile]

\* a Container after parse() has returned Ok
InitArgs ==
    /\ IdleBut("SpecArgs")
    /\ \E streams \in UNION { [1..n -> StreamKinds] : n \in 1..MaxTracks } :
          tracks = ProbedTracks(streams)
    /\ \E tags \in FormatTags : metadata = SetKey(tags, "TRIMMER_VERSION", Signature)
    /\ enc = WithCodec(LIBX265_CODEC)
    /\ argv = <<>>
    /\ edits = 0

\* the values the user picks from one of the lists of a codec
Picks(lst) == {lst[1], lst[Len(lst)]}
\* the texts the user types into a language or title cell
LanguageTexts == {"eng"}
TitleTexts == {"Commentary"}

Editable == argv = <<>> /\ edits < MaxEdits

\* the keep checkbox of a track row: t.keep = state == Checked
KeepCheckbox ==
    /\ Editable
    /\ \E row \in 1..Len(tracks), b \in BOOLEAN :
          tracks' = [tracks EXCEPT ![row].keep = b]
    /\ edits' = edits + 1
    /\ UNCHANGED <<metadata, enc, argv>>
    /\ UNCHANGED offArgVars

keep_all ==
    /\ Editable
    /\ tracks' = [row \in 1..Len(tracks) |-> [tracks[row] EXCEPT !.keep = TRUE]]
    /\ edits' = edits + 1
    /\ UNCHANGED <<metadata, enc, argv>>
    /\ UNCHANGED offArgVars

keep_none ==
    /\ Editable
    /\ tracks' = [row \in 1..Len(tracks) |-> [tracks[row] EXCEPT !.keep = FALSE]]
    /\ edits' = edits + 1
    /\ UNCHANGED <<metadata, enc, argv>>
    /\ UNCHANGED offArgVars

\* column 3 of a track row is its language, column 4 its title
on_tracks_cell_changed ==
    /\ Editable
    /\ \E row \in 1..Len(tracks) :
          \/ \E language \in LanguageTexts :
                tracks' = [tracks EXCEPT ![row].language = language]
          \/ \E title \in TitleTexts :
                tracks' = [tracks EXCEPT ![row].title = title]
    /\ edits' = edits + 1
    /\ UNCHANGED <<metadata, enc, argv>>
    /\ UNCHANGED offArgVars

\* column 1 of a file row is the container title: self.__metadata['title'] = title
on_files_cell_changed ==
    /\ Editable
    /\ \E title \in TitleTexts : metadata' = SetKey(metadata, "title", title)
    /\ edits' = edits + 1
    /\ UNCHANGED <<tracks, enc, argv>>
    /\ UNCHANGED offArgVars

update_codec ==
    /\ Editable
    /\ \E i \in 1..Len(KNOWN_CODECS) : enc' = WithCodec(KNOWN_CODECS[i])
    /\ edits' = edits + 1
    /\ UNCHANGED <<tracks, metadata, argv>>
    /\ UNCHANGED offArgVars

update_preset ==
    /\ Editable
    /\ \E preset \in Picks(enc.codec.presets) : enc' = [enc EXCEPT !.preset = preset]
    /\ edits' = edits + 1
    /\ UNCHANGED <<tracks, metadata, argv>>
    /\ UNCHANGED offArgVars

update_tune ==
    /\ Editable
    /\ \E tune \in Picks(enc.codec.tunes) : enc' = [enc EXCEPT !.tune = tune]
    /\ edits' = edits + 1
    /\ UNCHANGED <<tracks, metadata, argv>>
    /\ UNCHANGED offArgVars

update_profile ==
    /\ Editable
    /\ \E profile \in Picks(enc.codec.profiles) : enc' = [enc EXCEPT !.profile = profile]
    /\ edits' = edits + 1
    /\ UNCHANGED <<tracks, metadata, argv>>
    /\ UNCHANGED offArgVars

\* FFMpegRemuxer.set_format_metadata: one '-metadata key=value' pair for each
\* item of the mapping, in its iteration order
RECURSIVE set_format_metadata(_)
set_format_metadata(meta) ==
    IF meta = <<>> THEN <<>>
    ELSE <<"-metadata", meta[1][1] \o "=" \o meta[1][2]>> \o set_format_metadata(Tail(meta))

audio_as_is == <<"-c:a", "copy">>
subtitles_as_is == <<"-c:s", "copy">>
video_as_is == <<"-c:v", "copy">>
video_to_hevc(codec, preset, tune, profile) ==
    <<"-c:v", codec.name, "-preset", preset, "-tune", tune, "-profile:v", profile,
      "-vtag", "hvc1">>

\* FFMpegRemuxer.keep_track
keep_track(track) == <<"-map", "0:" \o ToString(track.index)>>

\* the video branch of the loop of remux(): if not track.is_h265: video_to_hevc
VideoArgsInverted(track, e) ==
    IF track.type = "video"
    THEN IF is_h265(track)
         THEN video_to_hevc(e.codec, e.preset, e.tune, e.profile)
         ELSE video_as_is
    ELSE <<>>
VideoArgs(track, e) ==
    IF track.type = "video"
    THEN IF ~is_h265(track)
         THEN video_to_hevc(e.codec, e.preset, e.tune, e.profile)
         ELSE video_as_is
    ELSE <<>>

\* if track.keep: ffmpeg.keep_track(track)
KeepArgsAlways(track) == keep_track(track)
KeepArgs(track) == IF track.keep THEN keep_track(track) ELSE <<>>

\* for track in self.tracks: ...
RECURSIVE TrackArgs(_, _)
TrackArgs(trks, e) ==
    IF trks = <<>> THEN <<>>
    ELSE VideoArgs(trks[1], e) \o KeepArgs(trks[1]) \o TrackArgs(Tail(trks), e)

\* the whole argument list: __init__, the calls of remux() and the tail of process()
BuildArgs(file, outfile, meta, trks, e) ==
    <<"ffmpeg", "-i", file, "-y">> \o set_format_metadata(meta)
        \o audio_as_is \o subtitles_as_is \o TrackArgs(trks, e)
        \o <<outfile, "-progress", "pipe:1", "-v", "error">>

\* the file the Container of SpecArgs stands for
ArgsContainer == ContainerOf(<<"a", "mkv">>, "mkv")

\* remux() up to the Popen in process()
RemuxBuild ==
    /\ argv = <<>>
    /\ argv' = BuildArgs(ArgsContainer.file, OutFile(ArgsContainer), metadata, tracks, enc)
    /\ UNCHANGED <<tracks, metadata, enc, edits>>
    /\ UNCHANGED offArgVars

NextArgs ==
    \/ KeepCheckbox
    \/ keep_all
    \/ keep_none
    \/ on_tracks_cell_changed
    \/ on_files_cell_changed
    \/ update_codec
    \/ update_preset
    \/ update_tune
    \/ update_profile
    \/ RemuxBuild

SpecArgs == InitArgs /\ [][NextArgs]_vars


(***************************************************************************)
(* SpecCodec: the choice of the preferred HEVC codec at start-up, from the  *)
(* codecs ffmpeg supports and the name of the GPU.                          *)
(***************************************************************************)
MaxGpuParts == 3    \* SpecCodec: pieces the GPU name is made of

\* str.lower() on the characters GPU names are made of here
LowerChar(c) ==
    CASE c = "N" -> "n" [] c = "V" -> "v" [] c = "I" -> "i" [] c = "D" -> "d"
      [] c = "A" -> "a" [] c = "M" -> "m" [] OTHER -> c
Lower(str) == [i \in 1..Len(str) |-> LowerChar(str[i])]

\* the GPU names get_gpu_name() may return: runs of these pieces
GpuPieces ==
    { <<"N">>, <<"n">>, <<"V", "I", "D", "I", "A">>, <<"v", "i", "d", "i", "a">>,
      <<"v", "I", "d", "I", "a">>, <<"A", "M", "D">>, <<" ">> }

RECURSIVE Concat(_)
Concat(pieces) == IF pieces = <<>> THEN <<>> ELSE pieces[1] \o Concat(Tail(pieces))

GpuNames == { Concat(ps) : ps \in UNION { [1..n -> GpuPieces] : n \in 0..MaxGpuParts } }

OkOf(v) == [kind |-> "Ok", value |-> v]

\* codec.prefer_hevc_codec
prefer_hevc_codec_case_sensitive(supported, gpu) ==
    IF Contains(gpu, <<"n", "v", "i", "d", "i", "a">>) /\ HEVC_NVENC_CODEC \in supported
    THEN OkOf(HEVC_NVENC_CODEC)
    ELSE IF LIBX265_CODEC \in supported
    THEN OkOf(LIBX265_CODEC)
    ELSE Err("Cannot find supported HEVC codec")
prefer_hevc_codec(supported, gpu) ==
    IF Contains(Lower(gpu), <<"n", "v", "i", "d", "i", "a">>)
       /\ HEVC_NVENC_CODEC \in supported
    THEN OkOf(HEVC_NVENC_CODEC)
    ELSE IF LIBX265_CODEC \in supported
    THEN OkOf(LIBX265_CODEC)
    ELSE Err("Cannot find supported HEVC codec")

\* MainWindow.__init__ once gpu_name and supported_codecs have been obtained
InitCodec ==
    /\ IdleBut("SpecCodec")
    /\ codecs \in SUBSET Range(KNOWN_CODECS)
    /\ gpu_name \in GpuNames
    /\ preferred = NoResult

\* self.preferred_codec = prefer_hevc_codec(self.supported_codecs, self.gpu_name)
PreferCodec ==
    /\ preferred = NoResult
    /\ preferred' = prefer_hevc_codec(codecs, gpu_name)
    /\ UNCHANGED <<codecs, gpu_name>>
    /\ UNCHANGED offCodecVars

NextCodec == PreferCodec

SpecCodec == InitCodec /\ [][NextCodec]_vars


(***************************************************************************)
(* SpecDur: Container.__estimate_duration.  Seconds and frame rates are     *)
(* fixed-point numbers, kept as integers in units of 1/Scale, and the       *)
(* arithmetic on them is exact.                                             *)
(***************************************************************************)
MaxDurTracks == 2   \* SpecDur: tracks of the Container

Scale == 100
None == -1          \* Python's None where a number is expected

\* durations in seconds and frame rates a probe may report
DurationValues == {0, 9890, 9900, 10000}
FrameRateValues == {0, 2397, 2500}

RECURSIVE Sum(_)
Sum(lst) == IF lst = <<>> THEN 0 ELSE lst[1] + Sum(Tail(lst))
Max(lst) == CHOOSE x \in Range(lst) : \A y \in Range(lst) : y <= x
Min(lst) == CHOOSE x \in Range(lst) : \A y \in Range(lst) : x <= y

\* sum(lst) // len(lst): the floor of the average, a whole number
FloorAverageExact(lst) == Sum(lst) \div Len(lst)
FloorAverage(lst) == (Sum(lst) \div (Len(lst) * Scale)) * Scale

\* trim_to_one; ALLOWED_DIFFERENCE = 0.01
trim_to_one(lst) ==
    IF Len(lst) = 0 THEN None
    ELSE IF Len(lst) = 1 THEN lst[1]
    ELSE IF (Max(lst) - Min(lst)) * 100 > Max(lst) THEN FloorAverage(lst)
    ELSE lst[1]

\* int(duration_sec * frame_rate)
DurationFramesRounded(duration_sec, frame_rate) ==
    (duration_sec * frame_rate + (Scale * Scale) \div 2) \div (Scale * Scale)
DurationFrames(duration_sec, frame_rate) ==
    (duration_sec * frame_rate) \div (Scale * Scale)

\* the candidates the container metadata gives: DURATION, then duration
MetadataDurations(meta) ==
    (IF meta.DURATION # None THEN <<meta.DURATION>> ELSE <<>>)
        \o (IF meta.duration # None THEN <<meta.duration>> ELSE <<>>)

\* the loop over the tracks: the non-zero frame rates of the video tracks
RECURSIVE TrackFrameRates(_)
TrackFrameRates(trks) ==
    IF trks = <<>> THEN <<>>
    ELSE (IF trks[1].type = "video" /\ trks[1].frame_rate # None /\ trks[1].frame_rate # 0
          THEN <<trks[1].frame_rate>> ELSE <<>>) \o TrackFrameRates(Tail(trks))

\* the loop over the tracks: the non-zero durations of all tracks
RECURSIVE TrackDurations(_)
TrackDurations(trks) ==
    IF trks = <<>> THEN <<>>
    ELSE (IF trks[1].duration # None /\ trks[1].duration # 0
          THEN <<trks[1].duration>> ELSE <<>>) \o TrackDurations(Tail(trks))

\* the tracks a probe may have produced
DurTracks ==
    { [type |-> "video", duration |-> d, frame_rate |-> f] :
        d \in DurationValues, f \in FrameRateValues }
      \cup { [type |-> "audio", duration |-> d, frame_rate |-> None] : d \in DurationValues }

NoEstimate ==
    [pc |-> "start", durations_sec |-> <<>>, fps |-> <<>>, duration_sec |-> None,
     frame_rate |-> None, duration_seconds |-> None, duration_frames |-> None,
     fps_attr |-> None]

\* parse() has the metadata and the tracks and calls __estimate_duration
InitDur ==
    /\ IdleBut("SpecDur")
    /\ cont \in { [metadata |-> [DURATION |-> a, duration |-> b], tracks |-> t] :
                    a \in {None} \cup DurationValues, b \in {None} \cup DurationValues,
                    t \in UNION { [1..n -> DurTracks] : n \in 1..MaxDurTracks } }
    /\ est = NoEstimate

\* lines 68-80: collect the candidates
CollectCandidates ==
    /\ est.pc = "start"
    /\ est' = [est EXCEPT !.pc = "collected",
                          !.durations_sec = MetadataDurations(cont.metadata)
                                                \o TrackDurations(cont.tracks),
                          !.fps = TrackFrameRates(cont.tracks)]
    /\ UNCHANGED cont
    /\ UNCHANGED offDurVars

\* lines 98-99: reduce each list to one value
ReduceCandidates ==
    /\ est.pc = "collected"
    /\ est' = [est EXCEPT !.pc = "reduced",
                          !.duration_sec = trim_to_one(est.durations_sec),
                          !.frame_rate = trim_to_one(est.fps)]
    /\ UNCHANGED cont
    /\ UNCHANGED offDurVars

\* lines 100-107: set the attributes of the Container
AssignEstimate ==
    /\ est.pc = "reduced"
    /\ IF est.duration_sec = None \/ est.frame_rate = None
       THEN est' = [est EXCEPT !.pc = "done", !.duration_seconds = 0,
                               !.duration_frames = 0, !.fps_attr = 0]
       ELSE est' = [est EXCEPT !.pc = "done", !.duration_seconds = est.duration_sec,
                               !.duration_frames =
                                   DurationFrames(est.duration_sec, est.frame_rate),
                               !.fps_attr = est.frame_rate]
    /\ UNCHANGED cont
    /\ UNCHANGED offDurVars

NextDur ==
    \/ CollectCandidates
    \/ ReduceCandidates
    \/ AssignEstimate

SpecDur == InitDur /\ [][NextDur]_vars


(***************************************************************************)
(* SpecProbe: Container.parse() with get_video_tracks and its ffprobe       *)
(* invocations.  An exception that leaves parse() is the result "raise".    *)
(***************************************************************************)
MaxStreams == 2     \* SpecProbe: streams of the opened file

Absent == [form |-> "absent"]           \* a key the JSON does not have
Text == [form |-> "text"]               \* a string of no expected format
Number(n) == [form |-> "number", n |-> n]
Hms(h, m, sec) == [form |-> "hms", h |-> h, m |-> m, s |-> sec]
Ratio(a, b) == [form |-> "ratio", dividend |-> a, divisor |-> b]
Name(chars) == [form |-> "name", chars |-> chars]

Raise(exc) == [kind |-> "raise", exc |-> exc]
Value(v) == [kind |-> "value", v |-> v]

\* float(x) of a JSON string
Float(x) == IF x.form = "number" THEN Value(x.n) ELSE Raise("ValueError")

\* duration_to_secs: FFMPEG_DURATION_RE.match, else 0
duration_to_secs(duration) ==
    IF duration.form # "hms" THEN 0
    ELSE duration.h * 3600 * Scale + duration.m * 60 * Scale + duration.s

\* frame_rate_to_float: FFMPEG_FRAME_RATE_RE.match, else 0; int / int
frame_rate_to_float(frame_rate) ==
    IF frame_rate.form # "ratio" THEN Value(0)
    ELSE IF frame_rate.divisor = 0 THEN Raise("ZeroDivisionError")
    ELSE Value((frame_rate.dividend * Scale) \div frame_rate.divisor)

\* a stream as ffprobe prints it
Stream(type, codec_name, DURATION, duration, r_frame_rate, channels) ==
    [type |-> type, codec_name |-> codec_name, DURATION |-> DURATION,
     duration |-> duration, r_frame_rate |-> r_frame_rate, channels |-> channels]

\* the streams a file may have: sound ones and ones with one odd field
ProbeStreamKinds ==
    { Stream("video", Name(CodecH264), Hms(0, 1, 4050), Absent, Ratio(24, 1), Absent),
      Stream("video", Name(CodecHevc), Absent, Number(6400), Ratio(0, 0), Absent),
      Stream("video", Name(CodecH264), Text, Absent, Text, Absent),
      Stream("video", Name(CodecH264), Absent, Absent, Absent, Absent),
      Stream("audio", Name(CodecAac), Absent, Number(6400), Absent, Number(2)),
      Stream("audio", Name(CodecAac), Absent, Text, Absent, Number(2)),
      Stream("audio", Name(CodecAac), Hms(0, 1, 4000), Absent, Absent, Absent),
      Stream("subtitle", Name(CodecSubrip), Absent, Absent, Absent, Absent),
      Stream("subtitle", Absent, Absent, Absent, Absent, Absent),
      Stream("attachment", Name(<<"t", "t", "f">>), Absent, Absent, Absent, Absent) }

\* the -select_streams values get_video_tracks passes, in its order
Selectors == <<"V", "a", "s">>
SelectorType(sel) ==
    CASE sel = "V" -> "video" [] sel = "a" -> "audio" [] sel = "s" -> "subtitle"

\* the track a parser lambda builds for stream number i
ProbeTrack(st, i, duration, frame_rate) ==
    Track(st.type, i - 1, st.codec_name.chars, "und", "default")
        @@ [duration |-> duration, frame_rate |-> frame_rate]

\* the body of the loop of process_streams for stream number i
ParseStream(st, i) ==
    IF st.codec_name = Absent THEN Raise("KeyError")
    ELSE LET duration == IF st.DURATION # Absent THEN Value(duration_to_secs(st.DURATION))
                         ELSE IF st.duration = Absent THEN Value(0)
                         ELSE Float(st.duration)
         IN  IF duration.kind = "raise" THEN duration
             ELSE IF st.type = "video"
             THEN IF st.r_frame_rate = Absent THEN Raise("KeyError")
                  ELSE LET rate == frame_rate_to_float(st.r_frame_rate)
                       IN  IF rate.kind = "raise" THEN rate
                           ELSE Value(ProbeTrack(st, i, duration.v, rate.v))
             ELSE IF st.type = "audio"
             THEN IF st.channels = Absent THEN Raise("KeyError")
                  ELSE Value(ProbeTrack(st, i, duration.v, None))
             ELSE Value(ProbeTrack(st, i, duration.v, None))

\* for stream in data['streams']: the tracks so far, or the first exception
RECURSIVE ParseStreams(_, _, _, _)
ParseStreams(streams, type, i, acc) ==
    IF i > Len(streams) THEN [kind |-> "Ok", tracks |-> acc]
    ELSE IF streams[i].type # type THEN ParseStreams(streams, type, i + 1, acc)
    ELSE LET t == ParseStream(streams[i], i)
         IN  IF t.kind = "raise" THEN t
             ELSE ParseStreams(streams, type, i + 1, Append(acc, t.v))


\* what ffprobe does wrong, if anything, and for which selector: it exits
\* with a non-zero code, prints no valid JSON, or JSON without 'streams'
Faults ==
    { [sel |-> "", kind |-> "none"] }
      \cup { [sel |-> Selectors[k], kind |-> f] :
               k \in 1..Len(Selectors), f \in {"exit", "json", "nokey"} }

ExitCode(m, sel) == IF m.fault.sel = sel /\ m.fault.kind = "exit" THEN 1 ELSE 0

\* get_video_tracks returns the Err of a probe at once
StopsAtNever(res) == FALSE
StopsAt(res) == res.kind = "Err"

\* process_streams: run ffprobe, json.loads, data['streams'], the loop
process_streams(m, sel) ==
    IF ExitCode(m, sel) # 0 THEN Err("Failed to get " \o sel \o " streams")
    ELSE IF m.fault.sel = sel /\ m.fault.kind = "json" THEN Raise("JSONDecodeError")
    ELSE IF m.fault.sel = sel /\ m.fault.kind = "nokey" THEN Raise("KeyError")
    ELSE ParseStreams(m.streams, SelectorType(sel), 1, <<>>)

\* get_container_metadata: the format tags, or Err when ffprobe fails or
\* prints no format.tags
get_container_metadata(m) ==
    IF m.tags.form = "err" THEN Err("No format tags") ELSE OkOf(m.tags)

\* the format tags a file may have, as far as the durations go
ProbeTags ==
    { [form |-> "err"],
      [form |-> "tags", DURATION |-> Absent, duration |-> Absent],
      [form |-> "tags", DURATION |-> Absent, duration |-> Number(6400)],
      [form |-> "tags", DURATION |-> Hms(0, 1, 4050), duration |-> Absent],
      [form |-> "tags", DURATION |-> Absent, duration |-> Absent,
       TRIMMER_VERSION |-> "older"] }

\* the metadata of parse(): {} with the signature when the tags are missing
EmptyTags == [form |-> "tags", DURATION |-> Absent, duration |-> Absent]

\* __estimate_duration on the metadata and the tracks: float() of the tags
\* first, then the triple
estimate_duration(meta, trks) ==
    LET a == IF meta.DURATION = Absent THEN Value(None) ELSE Float(meta.DURATION)
        b == IF meta.duration = Absent THEN Value(None) ELSE Float(meta.duration)
    IN  IF a.kind = "raise" THEN a
        ELSE IF b.kind = "raise" THEN b
        ELSE LET d == trim_to_one(MetadataDurations([DURATION |-> a.v, duration |-> b.v])
                                      \o TrackDurations(trks))
                 f == trim_to_one(TrackFrameRates(trks))
             IN  IF d = None \/ f = None THEN Value(<<0, 0, 0>>)
                 ELSE Value(<<d, DurationFrames(d, f), f>>)

\* Container.tracks when it holds a list
ListOf(items) == [kind |-> "list", items |-> items]

\* self.__metadata['TRIMMER_VERSION'] = self.__get_signature()
InjectSignatureNot(meta) == meta
InjectSignature(meta) == [TRIMMER_VERSION |-> Signature] @@ meta

\* probe.tracks is the list get_video_tracks builds, probe.ctracks the
\* attribute Container.__tracks, which parse() first sets to the Result,
\* probe.container the attribute Container.__container, set the same way
NoParse ==
    [pc |-> "start", invoked |-> <<>>, container |-> [kind |-> "None"],
     metadata |-> None, tracks |-> <<>>, ctracks |-> ListOf(<<>>),
     estimate |-> None, result |-> NoResult, exc |-> ""]

\* MainWindow.open_file has made the Container and calls parse()
InitProbe ==
    /\ IdleBut("SpecProbe")
    /\ media \in { [parts |-> ps, tags |-> t, streams |-> st, fault |-> f] :
                     ps \in { <<"a", "mkv">>, <<"a", "avi">> }, t \in ProbeTags,
                     st \in UNION { [1..n -> ProbeStreamKinds] : n \in 0..MaxStreams },
                     f \in Faults }
    /\ probe = NoParse

\* lines 201-204
ParseContainerType ==
    /\ probe.pc = "start"
    /\ LET ext == get_container_type(media.parts)
       IN  IF ext = "unsupported"
           THEN probe' = [probe EXCEPT
                            !.pc = "returned",
                            !.container = Err("Unsupported container: "
                                                  \o media.parts[Len(media.parts)]),
                            !.result = Err("Unsupported container")]
           ELSE probe' = [probe EXCEPT
                            !.pc = "metadata",
                            !.container = [kind |-> "ContainerType", ext |-> ext]]
    /\ UNCHANGED media
    /\ UNCHANGED offProbeVars

\* lines 206-213
ParseMetadata ==
    /\ probe.pc = "metadata"
    /\ LET res == get_container_metadata(media)
       IN  probe' = [probe EXCEPT !.pc = Selectors[1],
                                  !.metadata =
                                      InjectSignature(IF res.kind = "Err" THEN EmptyTags
                                                      ELSE res.value)]
    /\ UNCHANGED media
    /\ UNCHANGED offProbeVars

\* one process_streams call of get_video_tracks with what follows it: return
\* the Err (and parse() returns Err), or extend the tracks
ProbeStreams ==
    /\ \E k \in 1..Len(Selectors) :
          /\ probe.pc = Selectors[k]
          /\ LET res == process_streams(media, Selectors[k])
                 inv == Append(probe.invoked, Selectors[k])
             IN  IF res.kind = "raise"
                 THEN probe' = [probe EXCEPT !.pc = "raised", !.invoked = inv,
                                             !.exc = res.exc]
                 ELSE IF StopsAt(res)
                 THEN probe' = [probe EXCEPT
                                  !.pc = "returned", !.invoked = inv, !.ctracks = res,
                                  !.result = Err("Unable to get list of tracks: " \o res.msg)]
                 ELSE probe' = [probe EXCEPT
                                  !.pc = IF k < Len(Selectors) THEN Selectors[k + 1]
                                         ELSE "check",
                                  !.invoked = inv,
                                  !.tracks = IF res.kind = "Ok" THEN probe.tracks \o res.tracks
                                             ELSE probe.tracks]
    /\ UNCHANGED media
    /\ UNCHANGED offProbeVars

\* ffmpeg.py 333-336 and container.py 215-218
CheckTracks ==
    /\ probe.pc = "check"
    /\ IF Len(probe.tracks) = 0
       THEN probe' = [probe EXCEPT
                        !.pc = "returned", !.ctracks = Err("No tracks found"),
                        !.result = Err("Unable to get list of tracks: No tracks found")]
       ELSE probe' = [probe EXCEPT !.pc = "estimate", !.ctracks = ListOf(probe.tracks)]
    /\ UNCHANGED media
    /\ UNCHANGED offProbeVars

\* lines 221-224
EstimateDuration ==
    /\ probe.pc = "estimate"
    /\ LET res == estimate_duration(probe.metadata, probe.tracks)
       IN  IF res.kind = "raise"
           THEN probe' = [probe EXCEPT !.pc = "raised", !.exc = res.exc]
           ELSE probe' = [probe EXCEPT !.pc = "returned", !.estimate = res.v,
                                       !.result = Ok]
    /\ UNCHANGED media
    /\ UNCHANGED offProbeVars

NextProbe ==
    \/ ParseContainerType
    \/ ParseMetadata
    \/ ProbeStreams
    \/ CheckTracks
    \/ EstimateDuration

SpecProbe == InitProbe /\ [][NextProbe]_vars


(***************************************************************************)
(* SpecEnc: the codec, preset, tune and profile of the opened files, as the *)
(* combo boxes of the files table and the batch encoding options dialog     *)
(* set them.                                                                *)
(***************************************************************************)
MaxEncFiles == 2    \* SpecEnc: files that are opened
MaxEncEdits == 2    \* SpecEnc: edits the user makes

\* MainWindow.__init__ has found the supported codecs and the preferred one
InitEnc ==
    /\ IdleBut("SpecEnc")
    /\ \E supported \in { <<LIBX265_CODEC>>, <<LIBX265_CODEC, HEVC_NVENC_CODEC>>,
                          KNOWN_CODECS } :
       \E preferred_codec \in Range(supported) \cap {LIBX265_CODEC, HEVC_NVENC_CODEC} :
          ui = [supported_codecs |-> supported, preferred_codec |-> preferred_codec]
    /\ encs = <<>>
    /\ encEdits = 0

\* container = Container(file, self.preferred_codec); self.files.append(container)
open_file ==
    /\ Len(encs) < MaxEncFiles
    /\ encs' = Append(encs, WithCodec(ui.preferred_codec))
    /\ UNCHANGED <<ui, encEdits>>
    /\ UNCHANGED offEncVars

\* the combo boxes of a row of the files table: each lists the values of the
\* codec of its file
RowComboBox ==
    /\ encEdits < MaxEncEdits
    /\ \E row \in 1..Len(encs) :
          \/ \E i \in 1..Len(ui.supported_codecs) :
                encs' = [encs EXCEPT ![row] = WithCodec(ui.supported_codecs[i])]
          \/ \E preset \in Picks(encs[row].codec.presets) :
                encs' = [encs EXCEPT ![row].preset = preset]
          \/ \E tune \in Picks(encs[row].codec.tunes) :
                encs' = [encs EXCEPT ![row].tune = tune]
          \/ \E profile \in Picks(encs[row].codec.profiles) :
                encs' = [encs EXCEPT ![row].profile = profile]
    /\ encEdits' = encEdits + 1
    /\ UNCHANGED ui
    /\ UNCHANGED offEncVars

\* the codec whose lists the dialog shows: the codec of the files when they
\* all have the same one, else the preferred codec
DialogCodec(fs_, preferred_codec) ==
    LET used == { fs_[i].codec : i \in 1..Len(fs_) }
    IN  IF Cardinality(used) # 1 THEN preferred_codec
        ELSE CHOOSE c \in used : TRUE

\* the dialog accepted with result_type preset, tune, profile or codec: the
\* value goes to every file (result_type container leaves these fields alone)
batch_encoding_options ==
    /\ encEdits < MaxEncEdits
    /\ LET codec == DialogCodec(encs, ui.preferred_codec)
       IN  \/ \E preset \in Picks(codec.presets) :
                 encs' = [i \in 1..Len(encs) |-> [encs[i] EXCEPT !.preset = preset]]
           \/ \E tune \in Picks(codec.tunes) :
                 encs' = [i \in 1..Len(encs) |-> [encs[i] EXCEPT !.tune = tune]]
           \/ \E profile \in Picks(codec.profiles) :
                 encs' = [i \in 1..Len(encs) |-> [encs[i] EXCEPT !.profile = profile]]
           \/ \E k \in 1..Len(ui.supported_codecs) :
                 encs' = [i \in 1..Len(encs) |-> WithCodec(ui.supported_codecs[k])]
    /\ encEdits' = encEdits + 1
    /\ UNCHANGED ui
    /\ UNCHANGED offEncVars

NextEnc ==
    \/ open_file
    \/ RowComboBox
    \/ batch_encoding_options

SpecEnc == InitEnc /\ [][NextEnc]_vars


(***************************************************************************)
(* SpecStart: MainWindow.__init__ from the list of encoders ffmpeg prints   *)
(* to the preferred codec.  The text is a list of lines, each the sequence  *)
(* of its characters.                                                       *)
(***************************************************************************)
MaxEncLines == 2    \* SpecStart: lines of the 'ffmpeg -hide_banner -encoders' output

\* the characters of the name of a codec
NameChars(name) ==
    CASE name = "libx265" -> <<"l", "i", "b", "x", "2", "6", "5">>
      [] name = "hevc_nvenc" -> <<"h", "e", "v", "c", "_", "n", "v", "e", "n", "c">>
      [] name = "hevc_videotoolbox" ->
             <<"h", "e", "v", "c", "_", "v", "i", "d", "e", "o", "t", "o", "o", "l",
               "b", "o", "x">>

\* the Codec objects ffmpeg.py makes: equal in content to the ones of
\* codec.py, but other objects, and Codec defines no __eq__
InFfmpegPy(codec) == [module |-> "ffmpeg"] @@ codec

\* known_codecs of get_supported_hevc_codecs
known_codecs == <<InFfmpegPy(LIBX265_CODEC), InFfmpegPy(HEVC_NVENC_CODEC)>>

\* the lines ffmpeg may print: an encoder each, two encoders, none, nothing
EncoderLines ==
    { <<>>,
      <<" ", "V", " ">> \o NameChars("libx265"),
      <<" ", "V", " ">> \o NameChars("hevc_nvenc"),
      <<" ", "V", " ">> \o NameChars("hevc_videotoolbox"),
      <<" ", "V", " ", "l", "i", "b", "x", "2", "6", "4">>,
      NameChars("hevc_nvenc") \o <<" ">> \o NameChars("libx265") }

\* the GPU names of the start-up: two with NVIDIA in them and one without
StartGpuNames ==
    { Concat(ps) : ps \in { << <<"N">>, <<"V", "I", "D", "I", "A">>, <<" ">> >>,
                            << <<"n">>, <<"v", "i", "d", "i", "a">> >>,
                            << <<"A", "M", "D">> >> } }

\* for codec in known_codecs: if codec.name in line: codecs.append(codec); break
FirstCodecIn(line) ==
    IF \E k \in 1..Len(known_codecs) : Contains(line, NameChars(known_codecs[k].name))
    THEN LET k == CHOOSE k \in 1..Len(known_codecs) :
                      /\ Contains(line, NameChars(known_codecs[k].name))
                      /\ \A j \in 1..(k - 1) :
                            ~Contains(line, NameChars(known_codecs[j].name))
         IN  <<known_codecs[k]>>
    ELSE <<>>

\* for line in result.split('\n'): ...
RECURSIVE CodecsIn(_)
CodecsIn(lines) ==
    IF lines = <<>> THEN <<>> ELSE FirstCodecIn(lines[1]) \o CodecsIn(Tail(lines))

\* ffmpeg.get_supported_hevc_codecs, on the exit code and the output of run()
get_supported_hevc_codecs(code, lines) ==
    IF code # 0 THEN Err("Failed to get codecs") ELSE OkOf(CodecsIn(lines))

\* MainWindow.__init__ has the GPU name and is about to ask for the encoders
InitStart ==
    /\ IdleBut("SpecStart")
    /\ encout \in { [code |-> c, lines |-> ls, gpu |-> g] :
                      c \in {0, 1}, g \in StartGpuNames,
                      ls \in UNION { [1..n -> EncoderLines] : n \in 0..MaxEncLines } }
    /\ boot = [pc |-> "codecs", supported_codecs |-> NoResult,
               preferred_codec |-> NoResult]

\* lines 116-120: an Err ends the program with SystemExit
SupportedCodecs ==
    /\ boot.pc = "codecs"
    /\ LET res == get_supported_hevc_codecs(encout.code, encout.lines)
       IN  boot' = [boot EXCEPT !.pc = IF res.kind = "Err" THEN "exit" ELSE "prefer",
                                !.supported_codecs = res]
    /\ UNCHANGED encout
    /\ UNCHANGED offStartVars

\* lines 122-126: codec.prefer_hevc_codec on the list of ffmpeg.py's objects
PreferredCodec ==
    /\ boot.pc = "prefer"
    /\ LET res == prefer_hevc_codec(Range(boot.supported_codecs.value), encout.gpu)
       IN  boot' = [boot EXCEPT !.pc = IF res.kind = "Err" THEN "exit" ELSE "ready",
                                !.preferred_codec = res]
    /\ UNCHANGED encout
    /\ UNCHANGED offStartVars

NextStart ==
    \/ SupportedCodecs
    \/ PreferredCodec

SpecStart == InitStart /\ [][NextStart]_vars


(***************************************************************************)
(* SpecEta: the progress handler of MainWindow.process() for one file and   *)
(* its ETACalculator.  Seconds, percents and the smoothing factor are       *)
(* fixed-point numbers, kept as integers in units of 1/Milli; a quotient is *)
(* rounded down to the unit.                                                *)
(***************************************************************************)
MaxEtaCalls == 5    \* SpecEta: calls of the progress handler and of set_status

Milli == 1000

\* Container.duration_frames of the file: unknown (0) or estimated
TotalFrames == {0, 4, 10, 40}

\* ETACalculator.reset(start_time, 0)
reset(start_time) ==
    [start_time |-> start_time, prev_time |-> start_time, prev_percent |-> 0,
     eta |-> 0, speed_avg |-> None, alpha |-> 200, update_count |-> 0]

\* if time_diff <= 0 or percent <= self.prev_percent: return
ReturnsEarlyOnTimeOnly(c, current_time, percent) ==
    current_time - c.prev_time <= 0
ReturnsEarly(c, current_time, percent) ==
    current_time - c.prev_time <= 0 \/ percent <= c.prev_percent

\* max(0.05, 0.2 / (1 + 0.1 * self.update_count))
AdaptiveAlpha(update_count) == Max(<<50, (2 * Milli) \div (10 + update_count)>>)

\* (1 - alpha) * a + alpha * b
Smooth(alpha, a, b) == ((Milli - alpha) * a + alpha * b) \div Milli

\* ETACalculator.feed(percent) when time.time() returns current_time
feed(c, current_time, percent) ==
    IF ReturnsEarly(c, current_time, percent) THEN c
    ELSE LET instant_speed ==
                 ((percent - c.prev_percent) * Milli) \div (current_time - c.prev_time)
             speed_avg == IF c.speed_avg = None THEN instant_speed
                          ELSE Smooth(c.alpha, c.speed_avg, instant_speed)
             update_count == c.update_count + 1
             alpha == AdaptiveAlpha(update_count)
             estimate == ((100 * Milli - percent) * Milli) \div speed_avg
             new_eta == IF estimate > 10 * (current_time - c.start_time)
                        THEN (IF c.eta > 0 THEN c.eta ELSE 0)
                        ELSE estimate
             eta == IF speed_avg > 0
                    THEN (IF c.eta = 0 THEN new_eta ELSE Smooth(alpha, c.eta, new_eta))
                    ELSE c.eta
         IN  [c EXCEPT !.speed_avg = speed_avg, !.update_count = update_count,
                       !.alpha = alpha, !.eta = eta,
                       !.prev_time = current_time, !.prev_percent = percent]

\* self.completed_percent = frame / self.total_frames * 100
completed_percent(fr, total_frames) ==
    IF total_frames = 0 THEN Raise("ZeroDivisionError")
    ELSE Value((fr * 100 * Milli) \div total_frames)

\* FileStatus.__init__ for a parsed file; ffmpeg has printed no frame yet
InitEta ==
    /\ IdleBut("SpecEta")
    /\ \E total_frames \in TotalFrames :
          stat = [total_frames |-> total_frames, completed_percent |-> 0,
                  time |-> 0, frame |-> 0, calls |-> 0, exc |-> ""]
    /\ calc = reset(0)
    /\ feeds = <<>>

\* the frame numbers the next progress line may carry and the time that
\* has passed when it arrives
FrameSteps == {-1, 0, 1, 2}
TimeSteps == {0, Milli}

\* on_progress(index, frame, fps): status.update_progress(frame), which
\* computes the percent and feeds it
on_progress ==
    /\ stat.exc = ""
    /\ stat.calls < MaxEtaCalls
    /\ \E df \in FrameSteps, dt \in TimeSteps :
          LET fr == stat.frame + df
              current_time == stat.time + dt
              percent == completed_percent(fr, stat.total_frames)
          IN  /\ fr >= 0
              /\ IF percent.kind = "raise"
                 THEN /\ stat' = [stat EXCEPT !.exc = percent.exc, !.frame = fr,
                                              !.time = current_time,
                                              !.calls = stat.calls + 1]
                      /\ UNCHANGED <<calc, feeds>>
                 ELSE /\ stat' = [stat EXCEPT !.completed_percent = percent.v,
                                              !.frame = fr, !.time = current_time,
                                              !.calls = stat.calls + 1]
                      /\ calc' = feed(calc, current_time, percent.v)
                      /\ feeds' = Append(feeds, [time |-> current_time,
                                                 percent |-> percent.v])
    /\ UNCHANGED offEtaVars

\* FileStatus.set_status('pending' or 'working'): completed_percent = 0 and
\* self.eta.reset(time.time(), 0); feeds starts again
set_status ==
    /\ stat.exc = ""
    /\ stat.calls < MaxEtaCalls
    /\ feeds # <<>>
    /\ \E dt \in TimeSteps :
          /\ stat' = [stat EXCEPT !.completed_percent = 0, !.time = stat.time + dt,
                                  !.frame = 0, !.calls = stat.calls + 1]
          /\ calc' = reset(stat.time + dt)
    /\ feeds' = <<>>
    /\ UNCHANGED offEtaVars

NextEta ==
    \/ on_progress
    \/ set_status

SpecEta == InitEta /\ [][NextEta]_vars


(***************************************************************************)
(* Properties of Spec.                                                      *)
(***************************************************************************)
\* the diagnostic remux() returns for an ffmpeg exit code and its stderr lines
Diagnostic(code, errLines) ==
    "Remuxer failed: Failed to process file. Exit code: " \o ToString(code)
        \o " (" \o ToString(code) \o "): " \o StripText(errLines)

\* C1: after remux() has returned Ok, the chosen backup F.bakN holds what F
\* held before the call, the canonical path holds what ffmpeg produced and
\* the temporary path F.trimmed.E does not exist.
C1_CommitPostcondition ==
    call.result.kind = "Ok" =>
        /\ BakIndexOf(call.file, call.bak) >= 0
        /\ ContentOf(fs, call.bak) = call.orig
        /\ call.orig # NoFile
        /\ call.dest = splitext_root(files[call.i].parts) \o "." \o files[call.i].ext
        /\ ContentOf(fs, call.dest) = ProducedBy(callno)
        /\ call.out = call.file \o ".trimmed." \o files[call.i].ext
        /\ ~Exists(fs, call.out)

C1_Witness ==
    /\ call.result.kind = "Ok"
    /\ call.dest # call.file
    /\ Exists(fs, call.bak)

\* C2: no step overwrites or removes an existing backup; the commit step
\* backs up to F.bakN for the smallest N whose F.bakN does not exist, which
\* is a new name numbered above the backup of the previous successful remux()
\* of the same path.
C2_BackupsNeverOverwritten ==
    [][ /\ \A k \in 1..Len(files) : \A p \in BaksOf(fs, files[k].file) :
              Exists(fs', p) /\ fs'[p] = fs[p]
        /\ (wpc = "streaming" /\ wpc' = "backed_up") =>
              LET n == BakIndexOf(call.file, call'.bak)
              IN  /\ n >= 0
                  /\ ~Exists(fs, call'.bak)
                  /\ \A j \in 0..(n - 1) : Exists(fs, BakName(call.file, j))
                  /\ n > lastBak[call.file]
                  /\ fs'[call'.bak] = fs[call.file]
      ]_vars

C2_Witness ==
    /\ wpc = "backed_up"
    /\ lastBak[call.file] >= 0
    /\ BakIndexOf(call.file, call.bak) > lastBak[call.file]

\* C3: from the start of remux() to its return, and after a move has raised,
\* the content the input file had at the call is on disk under the original
\* path or under one of its .bakN paths.
C3_OriginalRecoverable ==
    (wpc \in {"streaming", "backed_up", "crashed"} /\ call.orig # NoFile) =>
        \/ ContentOf(fs, call.file) = call.orig
        \/ \E p \in BaksOf(fs, call.file) : fs[p] = call.orig

C3_Witness ==
    /\ wpc = "crashed"
    /\ call.orig # NoFile
    /\ ~Exists(fs, call.file)
    /\ ContentOf(fs, call.bak) = call.orig

\* what C4 says apart from the temporary file: Err with the diagnostic, the
\* input untouched, no backup created; and a non-zero exit gives Err
FailurePathRest ==
    /\ call.result.kind = "Err" =>
          /\ child.code # 0
          /\ call.result.msg = Diagnostic(child.code, child.errLines)
          /\ ContentOf(fs, call.file) = call.orig
          /\ BaksOf(fs, call.file) = call.baks
    /\ (wpc = "loop" /\ Len(exits) > 0 /\ exits[Len(exits)] # 0) =>
          call.result.kind = "Err"

\* C4 as claimed: after ffmpeg has ended with a non-zero exit code remux()
\* returns Err with the diagnostic, the temporary file does not exist, the
\* input is unchanged at its path and no backup has been created.
C4_TempGoneAfterFailure ==
    /\ FailurePathRest
    /\ call.result.kind = "Err" => ~Exists(fs, call.out)

\* C4 as amended: the temporary file does not exist afterwards unless
\* os.remove raised on the existing file, which is swallowed: remux() still
\* returns Err and the file stays.
C4_TempGoneUnlessRemoveFails ==
    /\ FailurePathRest
    /\ call.result.kind = "Err" => (call.rmFailed \/ ~Exists(fs, call.out))
    /\ call.rmFailed => call.result.kind = "Err" /\ wpc # "crashed"

C4_Witness ==
    /\ call.result.kind = "Err"
    /\ child.opened
    /\ ~call.rmFailed
    /\ ~Exists(fs, call.out)
    /\ child.errLines # <<>>

\* C5: the output path on the ffmpeg command line is <input>.trimmed.<ext>
\* and is never the input path, for every file and container type.
C5_OutputIsNotInput ==
    alive > 0 =>
        /\ child.input = files[idx].file
        /\ child.target = files[idx].file \o ".trimmed." \o files[idx].ext
        /\ child.target # child.input
        /\ files[idx].ext \in Range(SUPPORTED_CONTAINERS)

C5_Witness ==
    /\ alive > 0
    /\ child.opened
    /\ files[idx].ext # get_container_type(files[idx].parts)

\* C6: whatever ffmpeg runs fail, the worker passes the files to remux() once
\* each in list order, emits 'working' and then 'done' or 'error' (error
\* exactly for a failed ffmpeg run) for each, and emits 'finished' after the
\* last file and only then.
C6_BatchIsolation ==
    /\ \A k \in 1..Len(log) :
          LET i == ((k - 1) \div 3) + 1
              r == (k - 1) % 3
          IN  IF i <= Len(files)
              THEN /\ r = 0 => log[k] = Event("working", i)
                   /\ r = 1 => log[k] = Event("remux", i)
                   /\ r = 2 => log[k] = Event(IF exits[i] = 0 THEN "done" ELSE "error", i)
              ELSE k = 3 * Len(files) + 1 /\ log[k] = Event("finished", 0)
    /\ wpc = "loop" => Len(log) = 3 * (idx - 1) /\ idx <= Len(files) + 1
    /\ wpc = "returned" => Len(log) = 3 * Len(files) + 1

C6_Witness ==
    /\ wpc = "returned"
    /\ Len(files) = 2
    /\ exits[1] # 0
    /\ exits[2] = 0

\* C7: an error of remux() for a file, a failed backup or replace move
\* included, is recorded as that file's 'error' status.
C7_ErrorsCaughtAtFileBoundary ==
    raised # 0 => \E k \in 1..Len(log) : log[k] = Event("error", raised)

\* C8: at most one ffmpeg child is alive, and none is alive whenever the
\* worker is between two remux() calls, however often Process is triggered.
C8_OneEncoderAtATime ==
    /\ alive <= 1
    /\ wpc \in {"none", "loop", "backed_up", "returned"} => alive = 0
    /\ alive = 1 => wpc = "streaming" /\ child.code = NoCode

C8_Witness ==
    /\ alive = 1
    /\ idx = 2
    /\ connected = MaxTriggers
    /\ pending > 0

\* C27: no step of remux() changes or removes a file that was there before
\* the call, except that the input file is moved to its backup name; the
\* temporary file ffmpeg has made in this call is not such a file.
C27_PreexistingFilesKept ==
    [][\A p \in DOMAIN fs :
          \/ p \in DOMAIN fs' /\ fs'[p] = fs[p]
          \/ /\ p = call.file
             /\ p \notin DOMAIN fs'
             /\ \E b \in DOMAIN fs' \ DOMAIN fs : fs'[b] = fs[p]
          \/ p = call.out /\ child.opened]_vars

(***************************************************************************)
(* Properties of SpecProc.                                                  *)
(***************************************************************************)
\* the stderr lines the child has written
WrittenErr ==
    LET errIdx == {k \in 1..chPos : script.ops[k].pipe = "err"}
        RECURSIVE Collect(_)
        Collect(k) ==
            IF k > chPos THEN <<>>
            ELSE (IF k \in errIdx THEN <<script.ops[k].line>> ELSE <<>>) \o Collect(k + 1)
    IN  Collect(1)

\* C9: on_progress is invoked only when the frame or fps value has changed:
\* no two successive invocations carry the same (frame, fps) pair.
C9_CallbackOnlyOnChange ==
    \A i \in 2..Len(calls) : calls[i] # calls[i - 1]

\* C10: process() returns Ok exactly when the child exited with code 0,
\* otherwise Err with the exit code and the stripped stderr text, and makes
\* no on_progress call once it has returned.
C10_ResultMatchesExitCode ==
    /\ [](ppc = "returned" =>
            /\ chExit # NoCode
            /\ presult.kind = "Ok" <=> chExit = 0
            /\ chExit # 0 =>
                  presult = Err("Failed to process file. Exit code: " \o ToString(chExit)
                                \o " (" \o ToString(chExit) \o "): " \o StripText(WrittenErr)))
    /\ [][(ppc \in {"stderr", "returned"}) => (calls' = calls)]_vars

C10_Witness ==
    /\ ppc = "returned"
    /\ chExit = -9
    /\ Len(WrittenErr) = 2
    /\ WrittenErr[2] = ""
    /\ calls # <<>>

\* C11: while the child has been spawned and process() has not returned, an
\* exit handler that kills the child is registered; once process() has
\* returned its result the handler is no longer registered.
C11_KillHookWhileRunning ==
    /\ ppc \in {"stdout", "stderr"} => "kill_child" \in hooks
    /\ ppc = "returned" => "kill_child" \notin hooks

\* C26: process() returns for every child that writes finitely many lines
\* to its two pipes and exits.
C26_ProcessReturns == <>(ppc = "returned")

(***************************************************************************)
(* Properties of SpecArgs.                                                  *)
(***************************************************************************)
\* the positions of a token in an argument list, and the n-th of them
Positions(args, tok) == {i \in 1..Len(args) : args[i] = tok}
NthPosition(args, tok, n) ==
    CHOOSE i \in Positions(args, tok) :
        Cardinality({j \in Positions(args, tok) : j < i}) = n - 1

\* the token a is directly followed by the token b somewhere in args
HasPair(args, a, b) ==
    \E i \in 1..(Len(args) - 1) : args[i] = a /\ args[i + 1] = b

\* args holds the tokens toks from position i on
HasRun(args, i, toks) ==
    /\ i + Len(toks) - 1 <= Len(args)
    /\ \A j \in 1..Len(toks) : args[i + j - 1] = toks[j]

\* the rows of the video tracks, in track order
VideoRows == {k \in 1..Len(tracks) : tracks[k].type = "video"}
NthVideoRow(n) ==
    CHOOSE k \in VideoRows : Cardinality({j \in VideoRows : j < k}) = n - 1

\* C12: the command line remux() builds has the pair '-map 0:<index>' for a
\* track exactly if the track's keep is true, and has no other -map token.
C12_MapIffKeep ==
    argv # <<>> =>
        /\ \A k \in 1..Len(tracks) :
              HasPair(argv, "-map", "0:" \o ToString(tracks[k].index)) <=> tracks[k].keep
        /\ Cardinality(Positions(argv, "-map"))
              = Cardinality({k \in 1..Len(tracks) : tracks[k].keep})

C12_Witness ==
    /\ argv # <<>>
    /\ Len(tracks) = 3
    /\ tracks[1].index > tracks[2].index
    /\ ~tracks[1].keep /\ tracks[2].keep /\ ~tracks[3].keep

C14_MetadataCarried ==
    argv # <<>> =>
        /\ \A k \in 1..Len(tracks) :
              tracks[k].keep =>
                  LET flag == "-metadata:s:" \o ToString(tracks[k].index)
                  IN  /\ HasPair(argv, flag, "language=" \o tracks[k].language)
                      /\ HasPair(argv, flag, "title=" \o tracks[k].title)
        /\ Cardinality(Positions(argv, "-metadata")) = Len(metadata)
        /\ \A n \in 1..Len(metadata) :
              argv[NthPosition(argv, "-metadata", n) + 1]
                  = metadata[n][1] \o "=" \o metadata[n][2]

(***************************************************************************)
(* Properties of SpecCodec.                                                 *)
(***************************************************************************)
\* the GPU name has the letters n, v, i, d, i, a in a row, each in either case
NamesNvidia(gpu) ==
    LET letters == << {"n", "N"}, {"v", "V"}, {"i", "I"}, {"d", "D"}, {"i", "I"},
                      {"a", "A"} >>
    IN  \E i \in 0..(Len(gpu) - 6) : \A j \in 1..6 : gpu[i + j] \in letters[j]

\* C15: prefer_hevc_codec returns the NVENC codec whenever the GPU name
\* contains 'nvidia' in any letter case and NVENC is supported, else libx265
\* whenever libx265 is supported, else an error.
C15_CodecPreference ==
    preferred # NoResult =>
        IF NamesNvidia(gpu_name) /\ HEVC_NVENC_CODEC \in codecs
        THEN preferred.kind = "Ok" /\ preferred.value.name = "hevc_nvenc"
        ELSE IF LIBX265_CODEC \in codecs
        THEN preferred.kind = "Ok" /\ preferred.value.name = "libx265"
        ELSE preferred.kind = "Err"

C15_Witness ==
    /\ preferred # NoResult
    /\ preferred.kind = "Ok"
    /\ preferred.value = HEVC_NVENC_CODEC
    /\ LIBX265_CODEC \in codecs
    /\ ~Contains(gpu_name, <<"n", "v", "i", "d", "i", "a">>)
    /\ Len(gpu_name) > 6

(***************************************************************************)
(* Properties of SpecDur.                                                   *)
(***************************************************************************)
\* r is what the reduction of the candidate list lst has to give
ReducedAsClaimed(lst, r) ==
    IF Len(lst) = 0 THEN r = None
    ELSE IF Len(lst) = 1 THEN r = lst[1]
    ELSE LET hi == CHOOSE x \in Range(lst) : \A y \in Range(lst) : y <= x
             lo == CHOOSE x \in Range(lst) : \A y \in Range(lst) : x <= y
         IN  IF 100 * (hi - lo) <= hi
             THEN r = lst[1]
             ELSE /\ r % Scale = 0
                  /\ r * Len(lst) <= Sum(lst)
                  /\ Sum(lst) < (r + Scale) * Len(lst)

\* C16: the candidate lists are the metadata durations followed by the
\* non-zero track durations in track order (and the non-zero frame rates of
\* the video tracks); trim_to_one gives nothing for an empty list, the element
\* of a one-element list, the first element when max - min is at most 1% of
\* max and the floor of the average otherwise.
C16_TrimToOne ==
    est.pc \in {"reduced", "done"} =>
        /\ est.durations_sec =
              MetadataDurations(cont.metadata)
                  \o SelectSeq([k \in 1..Len(cont.tracks) |-> cont.tracks[k].duration],
                               LAMBDA d : d # 0)
        /\ ReducedAsClaimed(est.durations_sec, est.duration_sec)
        /\ ReducedAsClaimed(est.fps, est.frame_rate)

C16_Witness ==
    /\ est.pc = "done"
    /\ Len(est.durations_sec) = 3
    /\ cont.metadata.duration # None
    /\ est.durations_sec[1] = cont.metadata.duration
    /\ est.duration_sec # est.durations_sec[1]
    /\ est.duration_sec * 3 < Sum(est.durations_sec)

\* C17: the triple is (0, 0, 0) when the duration candidates or the frame
\* rate candidates are empty; otherwise the seconds and the rate are the
\* reduced candidates and the frames are the floor of their product.
C17_DurationTriple ==
    est.pc = "done" =>
        IF est.durations_sec = <<>> \/ est.fps = <<>>
        THEN est.duration_seconds = 0 /\ est.duration_frames = 0 /\ est.fps_attr = 0
        ELSE /\ est.duration_seconds = est.duration_sec
             /\ est.fps_attr = est.frame_rate
             /\ est.duration_frames * Scale * Scale <= est.duration_sec * est.frame_rate
             /\ est.duration_sec * est.frame_rate < (est.duration_frames + 1) * Scale * Scale

C17_Witness ==
    /\ est.pc = "done"
    /\ est.duration_frames > 0
    /\ est.duration_frames * Scale * Scale + (Scale * Scale) \div 2
          < est.duration_seconds * est.fps_attr

(***************************************************************************)
(* Properties of SpecProbe.                                                 *)
(***************************************************************************)
TypeRank(type) ==
    CASE type = "video" -> 1 [] type = "audio" -> 2 [] type = "subtitle" -> 3
      [] type = "attachment" -> 4

\* C18: the track list of a probe has every video, audio, subtitle and
\* attachment stream of the file exactly once, the video streams first, then
\* the audio, the subtitle and the attachment streams, each block in the
\* order of the file.
C18_TrackOrder ==
    (probe.pc = "estimate" \/ probe.result.kind = "Ok") =>
        LET trks == probe.ctracks.items
        IN  /\ Len(trks) = Len(media.streams)
            /\ \A i \in 1..Len(media.streams) :
                  \E k \in 1..Len(trks) :
                      trks[k].index = i - 1 /\ trks[k].type = media.streams[i].type
            /\ \A k, l \in 1..Len(trks) :
                  k < l =>
                      \/ TypeRank(trks[k].type) < TypeRank(trks[l].type)
                      \/ /\ trks[k].type = trks[l].type
                         /\ trks[k].index < trks[l].index

\* C19: when an ffprobe invocation of get_video_tracks exits with a non-zero
\* code, no later stream type is probed, Container.tracks gets no list and
\* parse() returns Err; a file without any track gives Err as well, and
\* parse() returns Ok only with a non-empty track list.
C19_ProbeFailureIsParseFailure ==
    /\ \A k \in 1..Len(probe.invoked) : probe.invoked[k] = Selectors[k]
    /\ (probe.pc = "returned" /\ media.fault.kind = "exit"
            /\ get_container_type(media.parts) # "unsupported") =>
          /\ probe.result.kind = "Err"
          /\ probe.invoked # <<>>
          /\ probe.invoked[Len(probe.invoked)] = media.fault.sel
          /\ probe.ctracks.kind = "Err"
    /\ (probe.pc = "returned"
            /\ \A i \in 1..Len(media.streams) : media.streams[i].type = "attachment") =>
          probe.result.kind = "Err"
    /\ probe.result.kind = "Ok" =>
          /\ probe.ctracks.kind = "list"
          /\ Len(probe.ctracks.items) > 0

C19_Witness ==
    /\ probe.pc = "returned"
    /\ media.fault = [sel |-> "a", kind |-> "exit"]
    /\ Len(probe.tracks) > 0
    /\ probe.invoked = <<"V", "a">>
    /\ probe.result.kind = "Err"

\* C20: parse() returns Ok or Err for every answer of ffprobe and never
\* raises an exception.
C20_ParseNeverRaises ==
    /\ probe.pc # "raised"
    /\ probe.pc = "returned" => probe.result.kind \in {"Ok", "Err"}

\* C23: when get_container_metadata returns an error, parse() goes on with
\* the empty metadata and the signature, still probes the tracks, and every
\* parse() that returns Ok leaves TRIMMER_VERSION in the metadata.
C23_MetadataFailureRecovered ==
    /\ (media.tags.form = "err" /\ probe.pc \notin {"start", "metadata"}
            /\ get_container_type(media.parts) # "unsupported") =>
          /\ probe.metadata = [TRIMMER_VERSION |-> Signature] @@ EmptyTags
          /\ probe.pc \in {"returned", "raised"} => probe.invoked # <<>>
    /\ probe.result.kind = "Ok" =>
          /\ "TRIMMER_VERSION" \in DOMAIN probe.metadata
          /\ probe.metadata.TRIMMER_VERSION = Signature

C23_Witness ==
    /\ media.tags.form = "err"
    /\ probe.pc = "returned"
    /\ probe.result.kind = "Ok"
    /\ probe.invoked = Selectors

\* C29: in every state of parse(), after it has returned Err as well,
\* Container.tracks is a list and Container.container is a ContainerType or
\* None.
C29_FieldsNeverHoldError ==
    /\ probe.ctracks.kind = "list"
    /\ probe.container.kind \in {"None", "ContainerType"}

(***************************************************************************)
(* Properties of SpecEnc.                                                   *)
(***************************************************************************)
\* C21: for every opened file the preset is one of the presets of its codec,
\* the tune one of its tunes and the profile one of its profiles.
C21_SelectionsBelongToCodec ==
    \A i \in 1..Len(encs) :
        /\ encs[i].preset \in Range(encs[i].codec.presets)
        /\ encs[i].tune \in Range(encs[i].codec.tunes)
        /\ encs[i].profile \in Range(encs[i].codec.profiles)

(***************************************************************************)
(* Properties of SpecStart.                                                 *)
(***************************************************************************)
\* the names of the catalog that occur in a line of the output
NamesListed ==
    { KNOWN_CODECS[k].name : k \in 1..Len(KNOWN_CODECS) }
        \cap { n \in {"libx265", "hevc_nvenc", "hevc_videotoolbox"} :
                 \E i \in 1..Len(encout.lines) : Contains(encout.lines[i], NameChars(n)) }

\* C22: get_supported_hevc_codecs returns Err when ffmpeg exits non-zero,
\* and else the codecs of the catalog whose name occurs in a line of the
\* output, each once.
C22_SupportedIsSubsetPresent ==
    boot.pc # "codecs" =>
        IF encout.code # 0 THEN boot.supported_codecs.kind = "Err"
        ELSE /\ boot.supported_codecs.kind = "Ok"
             /\ LET lst == boot.supported_codecs.value
                IN  /\ { lst[i].name : i \in 1..Len(lst) } = NamesListed
                    /\ \A i, j \in 1..Len(lst) : lst[i].name = lst[j].name => i = j

\* C30: when ffmpeg lists libx265, start-up ends with a preferred codec:
\* hevc_nvenc when the GPU name contains 'nvidia' and hevc_nvenc is listed
\* too, libx265 otherwise.
C30_StartupSelectsCodec ==
    (boot.pc \in {"ready", "exit"} /\ encout.code = 0 /\ "libx265" \in NamesListed) =>
        /\ boot.pc = "ready"
        /\ boot.preferred_codec.kind = "Ok"
        /\ boot.preferred_codec.value.name =
              IF NamesNvidia(encout.gpu) /\ "hevc_nvenc" \in NamesListed
              THEN "hevc_nvenc" ELSE "libx265"

(***************************************************************************)
(* Properties of SpecEta.                                                   *)
(***************************************************************************)
\* C24: a feed() whose percent is not above the previous accepted percent,
\* or that sees no time pass, leaves every field of the ETACalculator as it
\* was.
C24_StalledFeedChangesNothing ==
    [][(Len(feeds') = Len(feeds) + 1
            /\ LET f == feeds'[Len(feeds')]
               IN  f.percent <= calc.prev_percent \/ f.time - calc.prev_time <= 0)
        => calc' = calc]_vars

C24_Witness ==
    /\ calc.update_count >= 2
    /\ Len(feeds) >= 3
    /\ feeds[Len(feeds)].percent < calc.prev_percent
    /\ feeds[Len(feeds)].time > calc.prev_time
    /\ calc.eta > 0

\* the feeds since reset are k * (dt, dp), k = 1, 2, ..., for a dt and dp > 0
ConstantRate ==
    /\ feeds # <<>>
    /\ feeds[1].percent > 0
    /\ feeds[1].time - calc.start_time > 0
    /\ \A k \in 1..Len(feeds) :
          /\ feeds[k].percent = k * feeds[1].percent
          /\ feeds[k].time - calc.start_time = k * (feeds[1].time - calc.start_time)

\* C25: from the fourth sample of a constant rate on, and below 100 percent,
\* get() is within a fifth of the remaining time (100 - percent) / rate.
C25_EtaConverges ==
    (ConstantRate /\ Len(feeds) >= 4 /\ calc.prev_percent < 100 * Milli) =>
        LET remaining == ((100 * Milli - calc.prev_percent)
                              * (feeds[1].time - calc.start_time)) \div feeds[1].percent
            diff == IF calc.eta >= remaining THEN calc.eta - remaining
                    ELSE remaining - calc.eta
        IN  diff * 5 <= remaining

\* C28: the percent of every progress line is computed without an exception
\* and lies in 0..100.
C28_PercentInRange ==
    /\ stat.exc = ""
    /\ \A k \in 1..Len(feeds) :
          feeds[k].percent >= 0 /\ feeds[k].percent <= 100 * Milli

====
